---------------------------- MODULE Spec2Model ----------------------------
(***************************************************************************)
(* Model of the built-in PDF emitter of docgen/engine.py                   *)
(* (DocumentEngine._minimal_pdf_fallback and its nested helpers add_obj,   *)
(* flush_page, wrap_text, escape_pdf, write_obj).                          *)
(*                                                                         *)
(* Text and bytes are sequences of one-character strings.  The one element *)
(* that is not a single character, "U+2014", stands for a character with   *)
(* no latin-1 encoding (an em dash).                                       *)
(*                                                                         *)
(* The vertical cursor y is a Python float.  It is held exactly, as the    *)
(* integer y * 2^49 split in two limbs <<hi, lo>> with                     *)
(* y * 2^49 = hi * 2^30 + lo and 0 <= lo < 2^30, and every subtraction is  *)
(* rounded to the nearest double, ties to even, as IEEE 754 does.          *)
(***************************************************************************)
EXTENDS Integers, Sequences, FiniteSets

----------------------------------------------------------------------------
(* Sequence helpers *)

\* Where an operator reads its argument many times, the argument is handed
\* over as a value, as Python evaluates an argument once before the call:
\* CHOOSE result \in {Op(arg) : arg \in {e}} : TRUE is Op(e).

RECURSIVE JoinRange(_, _, _, _)
\* parts[lo], sep, parts[lo + 1], sep, ..., parts[hi] as one sequence
JoinRange(sep, parts, lo, hi) ==
    IF lo > hi THEN <<>>
    ELSE IF lo = hi THEN parts[lo]
    ELSE JoinRange(sep, parts, lo, (lo + hi) \div 2) \o sep
           \o JoinRange(sep, parts, (lo + hi) \div 2 + 1, hi)

\* b"".join(parts) / "".join(parts)
Flatten(parts) ==
    LET Joined(p) == JoinRange(<<>>, p, 1, Len(p))
    IN  CHOOSE result \in {Joined(arg) : arg \in {parts}} : TRUE

RECURSIVE SumRange(_, _, _)
\* Len(parts[lo]) + ... + Len(parts[hi])
SumRange(parts, lo, hi) ==
    IF lo > hi THEN 0
    ELSE IF lo = hi THEN Len(parts[lo])
    ELSE SumRange(parts, lo, (lo + hi) \div 2) + SumRange(parts, (lo + hi) \div 2 + 1, hi)

\* len(b"".join(parts))
SumLen(parts) ==
    LET Summed(p) == SumRange(p, 1, Len(p))
    IN  CHOOSE result \in {Summed(arg) : arg \in {parts}} : TRUE

\* sep.join(parts)
JoinWith(sep, parts) ==
    LET Joined(p) == JoinRange(sep, p, 1, Len(p))
    IN  CHOOSE result \in {Joined(arg) : arg \in {parts}} : TRUE

\* s starts with prefix p
StartsWith(s, p) == Len(s) >= Len(p) /\ SubSeq(s, 1, Len(p)) = p

\* s ends with suffix p
EndsWith(s, p) == Len(s) >= Len(p) /\ SubSeq(s, Len(s) - Len(p) + 1, Len(s)) = p

----------------------------------------------------------------------------
(* Characters *)

SP == " "
NL == "\n"
TAB == "\t"
BSL == "\\"
LPAR == "("
RPAR == ")"
EMDASH == "U+2014"

\* the characters str.split() and str.strip() treat as whitespace
Whitespace == {SP, NL, TAB}

\* the characters of the model that latin-1 cannot encode
NonLatin1 == {EMDASH}

DigitChars == <<"0", "1", "2", "3", "4", "5", "6", "7", "8", "9">>

IsDigit(c) == \E d \in 1..10 : DigitChars[d] = c

DigitValue(c) == (CHOOSE d \in 1..10 : DigitChars[d] = c) - 1

RECURSIVE Digits(_)
\* f"{n}" of a non-negative int
Digits(n) ==
    IF n < 10 THEN <<DigitChars[n + 1]>>
    ELSE Append(Digits(n \div 10), DigitChars[(n % 10) + 1])

RECURSIVE PadLeft(_, _)
PadLeft(ds, width) == IF Len(ds) >= width THEN ds ELSE PadLeft(<<"0">> \o ds, width)

\* f"{n:010d}"
Digits010(n) == PadLeft(Digits(n), 10)

RECURSIVE ParseNat(_)
\* the number a run of decimal digits denotes
ParseNat(ds) ==
    IF ds = <<>> THEN 0
    ELSE 10 * ParseNat(SubSeq(ds, 1, Len(ds) - 1)) + DigitValue(ds[Len(ds)])

----------------------------------------------------------------------------
(* Python floats of the layout, exactly *)

Two30 == 2^30
Two19 == 2^19
Two18 == 2^18

\* carry the low limb into the high limb
Norm(h, l) == <<h + (l \div Two30), l % Two30>>

\* float(n) of a small int
FromInt(n) == <<n * Two19, 0>>

FLess(a, b) == a[1] < b[1] \/ (a[1] = b[1] /\ a[2] < b[2])

RECURSIVE Pow2Below(_, _)
\* the largest p * 2^k (k >= 0) not above h
Pow2Below(p, h) ==
    LET From(q) == IF 2 * q > h THEN q ELSE Pow2Below(2 * q, h)
    IN  CHOOSE result \in {From(arg) : arg \in {p}} : TRUE

\* One unit in the last place of the double v, in units of 2^-49:
\* 2^e <= value < 2^(e+1) has ulp 2^(e-52) = 2^(e-3) units, and
\* 2^e <= value iff 2^(e+19) <= hi.  (Below 8 the ulp is finer than the
\* unit and every multiple of the unit is a double.)
Ulp(v) == Pow2Below(1, v[1]) \div (8 * Two19)

\* round the exact value v to the nearest double, ties to even
RoundDouble(v) ==
    LET Of(x) ==
            LET OfUlp(g) ==
                    LET Rounded(r) ==
                            IF r = 0 THEN x
                            ELSE IF 2 * r < g THEN Norm(x[1], x[2] - r)
                            ELSE IF 2 * r > g THEN Norm(x[1], x[2] - r + g)
                            ELSE IF ((x[2] - r) \div g) % 2 = 0 THEN Norm(x[1], x[2] - r)
                            ELSE Norm(x[1], x[2] - r + g)
                    IN  CHOOSE result \in {Rounded(arg) : arg \in {IF g <= 1 THEN 0 ELSE x[2] % g}} : TRUE
            IN  CHOOSE result \in {OfUlp(arg) : arg \in {Ulp(x)}} : TRUE
    IN  CHOOSE result \in {Of(arg) : arg \in {v}} : TRUE

\* a - b on floats
FSub(a, b) == RoundDouble(Norm(a[1] - b[1], a[2] - b[2]))

\* font_size * 1.4 on floats: 11 * 1.4 is the double 15.39999999999999857891
\* (8669429282688204 * 2^-49) and 16 * 1.4 the double
\* 22.39999999999999857891 (12610078956637388 * 2^-49)
FontTimesOnePointFour(font_size) ==
    IF font_size = 16 THEN <<11744051, 214748364>> ELSE <<8074035, 214748364>>

\* f"{v:.0f}" of a float: the nearest integer, ties to even
FormatF0(v) ==
    LET half == <<Two18, 0>>
        Formatted(x) ==
            LET n    == x[1] \div Two19
                frac == <<x[1] % Two19, x[2]>>
            IN  IF FLess(frac, half) THEN Digits(n)
                ELSE IF FLess(half, frac) THEN Digits(n + 1)
                ELSE IF n % 2 = 0 THEN Digits(n) ELSE Digits(n + 1)
    IN  CHOOSE result \in {Formatted(arg) : arg \in {v}} : TRUE

----------------------------------------------------------------------------
(* Text helpers of the emitter *)

\* text.split(): the maximal runs of non-whitespace characters, in order
Split(text) ==
    LET IsWord(t, i) == i >= 1 /\ i <= Len(t) /\ t[i] \notin Whitespace
        Nth(S, k)    == CHOOSE i \in S : Cardinality({j \in S : j <= i}) = k
        Runs(t, starts, ends) ==
            [k \in 1..Cardinality(starts) |-> SubSeq(t, Nth(starts, k), Nth(ends, k))]
        Words(t) ==
            Runs(t, {i \in 1..Len(t) : IsWord(t, i) /\ ~IsWord(t, i - 1)},
                    {i \in 1..Len(t) : IsWord(t, i) /\ ~IsWord(t, i + 1)})
    IN  CHOOSE result \in {Words(arg) : arg \in {text}} : TRUE

\* text.strip(): text without its leading and trailing whitespace
Strip(text) ==
    LET Stripped(t) ==
            LET Cut(keep) ==
                    IF keep = {} THEN <<>>
                    ELSE SubSeq(t, CHOOSE i \in keep : \A j \in keep : i <= j,
                                   CHOOSE i \in keep : \A j \in keep : j <= i)
            IN  CHOOSE result \in {Cut(arg) : arg \in {{i \in 1..Len(t) : t[i] \notin Whitespace}}} : TRUE
    IN  CHOOSE result \in {Stripped(arg) : arg \in {text}} : TRUE

\* WordFits without the column of the separating space
WordFitsNoSpace(current, word, chars_per_line) ==
    Len(current) + Len(word) <= chars_per_line

\* WordFits that leaves the last column of a line free
WordFitsStrict(current, word, chars_per_line) ==
    Len(current) + Len(word) + 1 < chars_per_line

\* the test of wrap_text that keeps a word on the current line
WordFits(current, word, chars_per_line) ==
    Len(current) + Len(word) + 1 <= chars_per_line

RECURSIVE WrapLoopDropLine(_, _, _, _)
\* WrapLoop that starts the new line without closing the full one
WrapLoopDropLine(words, chars_per_line, current, result_lines) ==
    IF words = <<>>
    THEN IF current # <<>> THEN Append(result_lines, current) ELSE result_lines
    ELSE LET word == Head(words)
         IN  IF Len(current) + Len(word) + 1 <= chars_per_line
             THEN WrapLoopDropLine(Tail(words), chars_per_line,
                                   IF current # <<>> THEN current \o <<SP>> \o word
                                   ELSE word,
                                   result_lines)
             ELSE WrapLoopDropLine(Tail(words), chars_per_line, word, result_lines)

RECURSIVE WrapLoopDropWord(_, _, _, _)
\* WrapLoop that takes the overflowing word only when it closes a line
WrapLoopDropWord(words, chars_per_line, current, result_lines) ==
    IF words = <<>>
    THEN IF current # <<>> THEN Append(result_lines, current) ELSE result_lines
    ELSE LET word == Head(words)
         IN  IF Len(current) + Len(word) + 1 <= chars_per_line
             THEN WrapLoopDropWord(Tail(words), chars_per_line,
                                   IF current # <<>> THEN current \o <<SP>> \o word
                                   ELSE word,
                                   result_lines)
             ELSE IF current # <<>>
                  THEN WrapLoopDropWord(Tail(words), chars_per_line, word,
                                        Append(result_lines, current))
                  ELSE WrapLoopDropWord(Tail(words), chars_per_line, current,
                                        result_lines)

RECURSIVE WrapLoop(_, _, _, _)
\* the for loop of wrap_text over the words still to place
WrapLoop(words, chars_per_line, current, result_lines) ==
    IF words = <<>>
    THEN IF current # <<>> THEN Append(result_lines, current) ELSE result_lines
    ELSE LET word == Head(words)
         IN  IF WordFits(current, word, chars_per_line)
             THEN WrapLoop(Tail(words), chars_per_line,
                           IF current # <<>> THEN current \o <<SP>> \o word ELSE word,
                           result_lines)
             ELSE WrapLoop(Tail(words), chars_per_line, word,
                           IF current # <<>> THEN Append(result_lines, current)
                           ELSE result_lines)

\* wrap_text that returns result_lines as the loop left it
wrap_text_no_default(text, chars_per_line) ==
    WrapLoop(Split(text), chars_per_line, <<>>, <<>>)

wrap_text(text, chars_per_line) ==
    LET result_lines == WrapLoop(Split(text), chars_per_line, <<>>, <<>>)
    IN  IF result_lines # <<>> THEN result_lines ELSE << <<>> >>

\* text.replace(c, by) for a one-character c
ReplaceChar(text, c, by) ==
    LET Replaced(t) == Flatten([i \in 1..Len(t) |-> IF t[i] = c THEN by ELSE <<t[i]>>])
    IN  CHOOSE result \in {Replaced(arg) : arg \in {text}} : TRUE

\* escape_pdf that escapes the parentheses before the backslashes
escape_pdf_parens_first(text) ==
    ReplaceChar(ReplaceChar(ReplaceChar(text, LPAR, <<BSL, LPAR>>),
                            RPAR, <<BSL, RPAR>>),
                BSL, <<BSL, BSL>>)

\* text.replace("\\", "\\\\").replace("(", "\\(").replace(")", "\\)")
escape_pdf(text) ==
    ReplaceChar(ReplaceChar(ReplaceChar(text, BSL, <<BSL, BSL>>),
                            LPAR, <<BSL, LPAR>>),
                RPAR, <<BSL, RPAR>>)

\* bytes of text.encode("latin-1", errors="replace")
EncodeLatin1(text) ==
    LET Encoded(t) == [i \in 1..Len(t) |-> IF t[i] \in NonLatin1 THEN "?" ELSE t[i]]
    IN  CHOOSE result \in {Encoded(arg) : arg \in {text}} : TRUE

----------------------------------------------------------------------------
(* Constants of _minimal_pdf_fallback *)

page_width == 612
page_height == 792
margin == 72
BlankHeight == 12
HeadingFontSize == 16
BodyFontSize == 11
HeadingWidth == 75
BodyWidth == 85
HeadingPt == 14

\* content of an object: None, or the bytes b as <<b>>
None == <<>>
Some(b) == <<b>>

\* b"<< /Type /Font /Subtype /Type1 /BaseFont /Helvetica >>"
FontRegular ==
    <<"<", "<", " ", "/", "T", "y", "p", "e", " ", "/", "F", "o", "n", "t",
      " ", "/", "S", "u", "b", "t", "y", "p", "e", " ", "/", "T", "y", "p",
      "e", "1", " ", "/", "B", "a", "s", "e", "F", "o", "n", "t", " ", "/",
      "H", "e", "l", "v", "e", "t", "i", "c", "a", " ", ">", ">">>

\* b"<< /Type /Font /Subtype /Type1 /BaseFont /Helvetica-Bold >>"
FontBold ==
    <<"<", "<", " ", "/", "T", "y", "p", "e", " ", "/", "F", "o", "n", "t",
      " ", "/", "S", "u", "b", "t", "y", "p", "e", " ", "/", "T", "y", "p",
      "e", "1", " ", "/", "B", "a", "s", "e", "F", "o", "n", "t", " ", "/",
      "H", "e", "l", "v", "e", "t", "i", "c", "a", "-", "B", "o", "l", "d",
      " ", ">", ">">>

\* "0.231 0.231 0.231 rg 0 0 ", the fixed start of the background line
BgStart ==
    <<"0", ".", "2", "3", "1", " ", "0", ".", "2", "3", "1", " ", "0", ".",
      "2", "3", "1", " ", "r", "g", " ", "0", " ", "0", " ">>

\* " re f"
BgEnd ==
    <<" ", "r", "e", " ", "f">>

\* "BT"
BT ==
    <<"B", "T">>

\* "ET"
ET ==
    <<"E", "T">>

\* "0.91 0.91 0.91 rg"
ColorLine ==
    <<"0", ".", "9", "1", " ", "0", ".", "9", "1", " ", "0", ".", "9", "1",
      " ", "r", "g">>

\* "/F1"
F1 ==
    <<"/", "F", "1">>

\* "/F2"
F2 ==
    <<"/", "F", "2">>

\* " Tf "
TfOp ==
    <<" ", "T", "f", " ">>

\* " Td ("
TdOp ==
    <<" ", "T", "d", " ", "(">>

\* ") Tj"
TjOp ==
    <<")", " ", "T", "j">>

\* f"0.231 0.231 0.231 rg 0 0 {page_width} {page_height} re f"
BgLine == BgStart \o Digits(page_width) \o <<SP>> \o Digits(page_height) \o BgEnd

----------------------------------------------------------------------------
(* State *)

VARIABLES
    pc,                    \* where _minimal_pdf_fallback stands
    lines,                 \* the (text, is_heading) records read so far
    wrapped,               \* the wrapped lines of the current record still to emit
    is_heading,            \* is_heading of the current record
    y,                     \* the vertical cursor
    current_stream_lines,  \* operator lines of the page in progress
    content_streams,       \* bytes of every sealed page
    objects,               \* (obj_id, content) pairs, in allocation order
    obj_id,                \* the last identity handed out
    page_ids,              \* (page_id, stream_id) pairs
    page_idx,              \* pages written by the loop over page_ids
    pdf_parts,             \* byte strings of the output, in order
    offsets,               \* identity -> byte offset of its "N 0 obj"
    out_file,              \* bytes at filepath; <<>> while nothing is written
    w_text,                \* wrap_text on its own: the text
    w_width,               \*   its chars_per_line
    w_result,              \*   the lines returned
    w_pc,                  \*   "idle", "call" or "returned"
    e_text,                \* escape_pdf on its own: the text
    e_result,              \*   the text returned
    e_pc,                  \*   "idle", "call" or "returned"
    filepath,              \* save_pdf: the path asked for
    lo_path,               \*   TRUE when shutil.which found a converter
    files                  \*   path -> kind of the files not written by the emitter

layout_vars == <<lines, wrapped, is_heading, y, current_stream_lines, content_streams>>
object_vars == <<objects, obj_id, page_ids>>
output_vars == <<page_idx, pdf_parts, offsets, out_file>>
wrap_vars == <<w_text, w_width, w_result, w_pc>>
esc_vars == <<e_text, e_result, e_pc>>
save_vars == <<filepath, lo_path, files>>
vars == <<pc, layout_vars, object_vars, output_vars, wrap_vars, esc_vars, save_vars>>

----------------------------------------------------------------------------
(* Object identities *)

\* add_obj: the next identity, with the object appended
add_obj(st, content) ==
    [objects |-> Append(st.objects, <<st.obj_id + 1, content>>),
     obj_id  |-> st.obj_id + 1]

NoObjects == [objects |-> <<>>, obj_id |-> 0]
WithCatalog == add_obj(NoObjects, None)
catalog_id == WithCatalog.obj_id
WithPages == add_obj(WithCatalog, None)
pages_id == WithPages.obj_id
WithFont == add_obj(WithPages, Some(FontRegular))
font_id == WithFont.obj_id
WithFontBold == add_obj(WithFont, Some(FontBold))
font_bold_id == WithFontBold.obj_id

----------------------------------------------------------------------------
(* Paths and files of save_pdf *)

\* ".docx" and ".pdf"
DocxExt == <<".", "d", "o", "c", "x">>
PdfExt == <<".", "p", "d", "f">>

\* the greatest position of c in path, 0 when there is none
LastIndex(path, c) ==
    LET at == {k \in 1..Len(path) : path[k] = c}
    IN  IF at = {} THEN 0 ELSE CHOOSE k \in at : \A j \in at : j <= k

\* path.rsplit(".", 1)[0]
RSplitStem(path) ==
    IF LastIndex(path, ".") = 0 THEN path
    ELSE SubSeq(path, 1, LastIndex(path, ".") - 1)

RECURSIVE RStripSlash(_)
RStripSlash(path) ==
    IF path # <<>> /\ path[Len(path)] = "/"
    THEN RStripSlash(SubSeq(path, 1, Len(path) - 1))
    ELSE path

\* os.path.dirname(path) or "."
DirnameOrDot(path) ==
    LET head == SubSeq(path, 1, LastIndex(path, "/"))
        dir  == IF RStripSlash(head) = <<>> THEN head ELSE RStripSlash(head)
    IN  IF dir = <<>> THEN <<".">> ELSE dir

Basename(path) == SubSeq(path, LastIndex(path, "/") + 1, Len(path))

\* the file name in a directory, "." being the directory relative paths
\* start from
InDir(dir, name) == IF dir = <<".">> THEN name ELSE dir \o <<"/">> \o name

docx_path_of(path) == RSplitStem(path) \o DocxExt
expected_pdf_of(path) == RSplitStem(docx_path_of(path)) \o PdfExt
out_dir_of(path) == DirnameOrDot(path)

\* where "--convert-to pdf --outdir out_dir docx_path" puts its output:
\* in out_dir, under the name of the input with the extension replaced
ConvertedPdf(path) ==
    InDir(out_dir_of(path), RSplitStem(Basename(docx_path_of(path))) \o PdfExt)

NoFiles == [p \in {} |-> "none"]

\* the files with one more, and with one less
With(fs, path, kind) ==
    [p \in DOMAIN fs \cup {path} |-> IF p = path THEN kind ELSE fs[p]]

Without(fs, path) == [p \in DOMAIN fs \ {path} |-> fs[p]]

\* the paths save_pdf is asked for in the model
FilePaths ==
    {<<"o", ".", "p", "d", "f">>, <<"o">>, <<"d", ".", "x", "/", "o">>}

\* the path of a direct call of _minimal_pdf_fallback
DirectPath == <<"o", ".", "p", "d", "f">>

\* save_pdf is under way: the document is saved at docx_path
Saving == docx_path_of(filepath) \in DOMAIN files

----------------------------------------------------------------------------
(* Paragraphs of the document *)

\* A paragraph: its text and the font size of each of its runs in points,
\* 0 for a run without a size.
Para(text, sizes) == [text |-> text, sizes |-> sizes]

\* n letters c
Letters(n, c) == [i \in 1..n |-> c]

\* a word of 43 letters c
Word(c) == Letters(43, c)

Word43 == Word("w")

ParaBlank == Para(<<>>, <<>>)
ParaSpaces == Para(<<SP, TAB>>, <<16>>)
ParaA == Para(<<"a">>, <<0>>)
ParaT == Para(<<"T">>, <<0, 16>>)
\* a heading of 81 characters, between the two wrap widths: a word of 60
\* letters, too wide to centre, and a word of 20
ParaB14 ==
    Para(<<SP>> \o Letters(60, "h") \o <<SP>> \o Letters(20, "k") \o <<SP>>, <<11, 14>>)
ParaTitle == Para(<<"T", "i", "t", "l", "e">>, <<16>>)
ParaHello ==
    Para(<<"H", "e", "l", "l", "o", " ", "w", "o", "r", "l", "d", ".">>, <<11>>)
ParaEsc == Para(<<LPAR, BSL, RPAR, SP, EMDASH>>, <<13>>)
\* body text whose first two words, 84 characters with their space, fit the
\* body width only
ParaLong ==
    Para(Word43 \o <<SP>> \o Letters(40, "x") \o <<NL, SP>> \o Word("y")
           \o <<SP>> \o Word("z"), <<>>)

Paragraphs ==
    {ParaBlank, ParaSpaces, ParaA, ParaT, ParaB14, ParaTitle, ParaHello,
     ParaEsc, ParaLong}

\* the record the first loop of _minimal_pdf_fallback makes of a paragraph
LineOf(para) ==
    LET text == Strip(para.text)
    IN  IF text # <<>>
        THEN <<text, \E k \in 1..Len(para.sizes) :
                         para.sizes[k] # 0 /\ para.sizes[k] >= HeadingPt>>
        ELSE << <<>>, FALSE >>

----------------------------------------------------------------------------
(* Inputs of the model *)

MaxRecords == 86
MaxTail == 1

ScenarioA == <<LineOf(ParaTitle), LineOf(ParaBlank), LineOf(ParaHello)>>

BulkRecords == {LineOf(ParaBlank), LineOf(ParaA), LineOf(ParaT)}

\* the title and the body line of scenario A, and the one-letter heading
\* that is a bulk record, add no case as tail records
TailRecords == {LineOf(para) : para \in Paragraphs \ {ParaTitle, ParaHello, ParaT}}

\* The documents of the model: scenario A and its prefixes, and any number
\* of copies of one bulk record followed by at most MaxTail tail records;
\* under save_pdf, no bulk records.
InputAllowed(ls) ==
    /\ Len(ls) <= MaxRecords
    /\ \/ Len(ls) <= Len(ScenarioA) /\ ls = SubSeq(ScenarioA, 1, Len(ls))
       \/ \E k \in 0..Len(ls) :
             /\ Len(ls) - k <= MaxTail
             /\ k > 0 => ls[1] \in BulkRecords /\ ~Saving
             /\ \A i \in 1..k : ls[i] = ls[1]
             /\ \A i \in (k + 1)..Len(ls) : ls[i] \in TailRecords

----------------------------------------------------------------------------
(* Page compositor *)

font_size_of(heading) == IF heading THEN HeadingFontSize ELSE BodyFontSize
\* line_height_of that takes the height of body text for every line
line_height_of_body(heading) == FontTimesOnePointFour(BodyFontSize)

line_height_of(heading) == FontTimesOnePointFour(font_size_of(heading))
font_ref_of(heading) == IF heading THEN F2 ELSE F1
width_of(heading) == IF heading THEN HeadingWidth ELSE BodyWidth

TopOfPage == FromInt(page_height - margin)

\* flush_page that restarts the cursor at the top edge of the sheet
flush_page_no_margin(stream_lines, streams) ==
    [current_stream_lines |-> <<>>,
     content_streams      |-> Append(streams, EncodeLatin1(JoinWith(<<NL>>, stream_lines))),
     y                    |-> FromInt(page_height)]

\* flush_page that restarts the cursor at the bottom margin
flush_page_at_margin(stream_lines, streams) ==
    [current_stream_lines |-> <<>>,
     content_streams      |-> Append(streams, EncodeLatin1(JoinWith(<<NL>>, stream_lines))),
     y                    |-> FromInt(margin)]

\* flush_page: seal the lines of the page in progress
flush_page(stream_lines, streams) ==
    LET stream_text  == JoinWith(<<NL>>, stream_lines)
        stream_bytes == EncodeLatin1(stream_text)
    IN  [current_stream_lines |-> <<>>,
         content_streams      |-> Append(streams, stream_bytes),
         y                    |-> TopOfPage]

\* BlankOverflows that breaks when the cursor reaches the margin
BlankOverflowsAtMargin(cursor) == ~FLess(FromInt(margin), cursor)

\* BlankOverflows that never breaks the page
BlankOverflowsNever(cursor) == FALSE

\* the test before a blank record's break: y < margin
BlankOverflows(cursor) == FLess(cursor, FromInt(margin))

\* LineOverflows that forgets the height of the line to emit
LineOverflowsNoHeight(cursor, line_height) == FLess(cursor, FromInt(margin))

\* the test before a wrapped line: y - line_height < margin
LineOverflows(cursor, line_height) ==
    FLess(FSub(cursor, line_height), FromInt(margin))

Max(a, b) == IF b > a THEN b ELSE a

\* XOf that never centres
XOfLeft(wline, heading) == margin

\* XOf that centres a heading however wide it is
XOfNoFloor(wline, heading) ==
    IF heading
    THEN (page_width - (Len(wline) * font_size_of(heading)) \div 2) \div 2
    ELSE margin

\* x of a wrapped line; len(wline) * font_size * 0.5 and the halved rest are
\* whole numbers for the even font size of a heading
XOf(wline, heading) ==
    IF heading
    THEN LET approx_width == (Len(wline) * font_size_of(heading)) \div 2
         IN  Max(margin, (page_width - approx_width) \div 2)
    ELSE margin

\* f"{font_ref} {font_size} Tf {x:.0f} {y:.0f} Td ({safe_text}) Tj"
TextLine(wline, heading, cursor) ==
    font_ref_of(heading) \o <<SP>> \o Digits(font_size_of(heading)) \o TfOp
      \o Digits(XOf(wline, heading)) \o <<SP>> \o FormatF0(cursor) \o TdOp
      \o escape_pdf(wline) \o TjOp

Init ==
    /\ pc = "layout"
    /\ lines = <<>>
    /\ wrapped = <<>>
    /\ is_heading = FALSE
    /\ y = TopOfPage
    /\ current_stream_lines = <<BgLine, BT>>
    /\ content_streams = <<>>
    /\ objects = WithFontBold.objects
    /\ obj_id = WithFontBold.obj_id
    /\ page_ids = <<>>
    /\ page_idx = 0
    /\ pdf_parts = <<>>
    /\ offsets = <<>>
    /\ out_file = <<>>
    /\ w_text = <<>>
    /\ w_width = 0
    /\ w_result = <<>>
    /\ w_pc = "idle"
    /\ e_text = <<>>
    /\ e_result = <<>>
    /\ e_pc = "idle"
    /\ filepath = DirectPath
    /\ lo_path = FALSE
    /\ files = NoFiles

\* One pass of the loop over lines for an empty record (lines 977-987).
BlankRecord(para) ==
    LET rec == LineOf(para)
        y1  == FSub(y, FromInt(BlankHeight))
        fl  == flush_page(Append(current_stream_lines, ET), content_streams)
    IN  /\ pc = "layout"
        /\ rec[1] = <<>>
        /\ lines' = Append(lines, rec)
        /\ InputAllowed(lines')
        /\ IF BlankOverflows(y1)
           THEN /\ content_streams' = fl.content_streams
                /\ current_stream_lines' = fl.current_stream_lines \o <<BgLine, BT>>
                /\ y' = fl.y
           ELSE /\ y' = y1
                /\ UNCHANGED <<content_streams, current_stream_lines>>
        /\ UNCHANGED <<pc, wrapped, is_heading, object_vars, output_vars, wrap_vars, esc_vars, save_vars>>

\* The start of a pass for a record with text (lines 989-996).
TextRecord(para) ==
    LET rec == LineOf(para)
    IN  /\ pc = "layout"
        /\ rec[1] # <<>>
        /\ lines' = Append(lines, rec)
        /\ InputAllowed(lines')
        /\ is_heading' = rec[2]
        /\ current_stream_lines' = Append(current_stream_lines, ColorLine)
        /\ wrapped' = wrap_text(rec[1], width_of(rec[2]))
        /\ pc' = "wrapped"
        /\ UNCHANGED <<y, content_streams, object_vars, output_vars, wrap_vars, esc_vars, save_vars>>

\* EmitLine that breaks the page and leaves out the line that did not fit
EmitLineLostAtBreak ==
    LET wline       == Head(wrapped)
        line_height == line_height_of(is_heading)
        break       == LineOverflows(y, line_height)
        fl          == flush_page(Append(current_stream_lines, ET), content_streams)
    IN  /\ pc = "wrapped"
        /\ content_streams' = IF break THEN fl.content_streams ELSE content_streams
        /\ current_stream_lines' =
              IF break THEN fl.current_stream_lines \o <<BgLine, BT, ColorLine>>
              ELSE Append(current_stream_lines, TextLine(wline, is_heading, y))
        /\ y' = FSub(IF break THEN fl.y ELSE y, line_height)
        /\ wrapped' = Tail(wrapped)
        /\ pc' = IF Tail(wrapped) = <<>> THEN "layout" ELSE "wrapped"
        /\ UNCHANGED <<lines, is_heading, object_vars, output_vars, wrap_vars, esc_vars, save_vars>>

\* EmitLine that does not set the text colour again on the page it starts
EmitLineNoColour ==
    LET wline       == Head(wrapped)
        line_height == line_height_of(is_heading)
        break       == LineOverflows(y, line_height)
        fl          == flush_page(Append(current_stream_lines, ET), content_streams)
        y0          == IF break THEN fl.y ELSE y
        before      == IF break
                       THEN fl.current_stream_lines \o <<BgLine, BT>>
                       ELSE current_stream_lines
    IN  /\ pc = "wrapped"
        /\ content_streams' = IF break THEN fl.content_streams ELSE content_streams
        /\ current_stream_lines' = Append(before, TextLine(wline, is_heading, y0))
        /\ y' = FSub(y0, line_height)
        /\ wrapped' = Tail(wrapped)
        /\ pc' = IF Tail(wrapped) = <<>> THEN "layout" ELSE "wrapped"
        /\ UNCHANGED <<lines, is_heading, object_vars, output_vars, wrap_vars, esc_vars, save_vars>>

\* One pass of the loop over wrapped (lines 997-1019).
EmitLine ==
    LET wline       == Head(wrapped)
        line_height == line_height_of(is_heading)
        break       == LineOverflows(y, line_height)
        fl          == flush_page(Append(current_stream_lines, ET), content_streams)
        y0          == IF break THEN fl.y ELSE y
        before      == IF break
                       THEN fl.current_stream_lines \o <<BgLine, BT, ColorLine>>
                       ELSE current_stream_lines
    IN  /\ pc = "wrapped"
        /\ content_streams' = IF break THEN fl.content_streams ELSE content_streams
        /\ current_stream_lines' = Append(before, TextLine(wline, is_heading, y0))
        /\ y' = FSub(y0, line_height)
        /\ wrapped' = Tail(wrapped)
        /\ pc' = IF Tail(wrapped) = <<>> THEN "layout" ELSE "wrapped"
        /\ UNCHANGED <<lines, is_heading, object_vars, output_vars, wrap_vars, esc_vars, save_vars>>

\* FinalSeal that seals only a page that shows text
FinalSealSkipEmpty ==
    LET fl    == flush_page(Append(current_stream_lines, ET), content_streams)
        shows == \E k \in 1..Len(current_stream_lines) :
                     StartsWith(current_stream_lines[k], <<"/">>)
    IN  /\ pc = "layout"
        /\ content_streams' = IF shows THEN fl.content_streams ELSE content_streams
        /\ current_stream_lines' = fl.current_stream_lines
        /\ y' = fl.y
        /\ pc' = "sealed"
        /\ UNCHANGED <<lines, wrapped, is_heading, object_vars, output_vars, wrap_vars, esc_vars, save_vars>>

\* After the last record (lines 1021-1022).
FinalSeal ==
    LET fl == flush_page(Append(current_stream_lines, ET), content_streams)
    IN  /\ pc = "layout"
        /\ content_streams' = fl.content_streams
        /\ current_stream_lines' = fl.current_stream_lines
        /\ y' = fl.y
        /\ pc' = "sealed"
        /\ UNCHANGED <<lines, wrapped, is_heading, object_vars, output_vars, wrap_vars, esc_vars, save_vars>>

----------------------------------------------------------------------------
(* File assembler: byte strings *)

\* "%PDF-1.4\n"
PdfHeader ==
    <<"%", "P", "D", "F", "-", "1", ".", "4", "\n">>

\* " 0 obj\n"
ObjOp ==
    <<" ", "0", " ", "o", "b", "j", "\n">>

\* "\nendobj\n"
EndObj ==
    <<"\n", "e", "n", "d", "o", "b", "j", "\n">>

\* "<< /Type /Catalog /Pages "
CatalogStart ==
    <<"<", "<", " ", "/", "T", "y", "p", "e", " ", "/", "C", "a", "t", "a",
      "l", "o", "g", " ", "/", "P", "a", "g", "e", "s", " ">>

\* " 0 R >>"
RefEnd ==
    <<" ", "0", " ", "R", " ", ">", ">">>

\* " 0 R"
Ref ==
    <<" ", "0", " ", "R">>

\* "<< /Type /Pages /Kids ["
PagesStart ==
    <<"<", "<", " ", "/", "T", "y", "p", "e", " ", "/", "P", "a", "g", "e",
      "s", " ", "/", "K", "i", "d", "s", " ", "[">>

\* "] /Count "
CountKey ==
    <<"]", " ", "/", "C", "o", "u", "n", "t", " ">>

\* " >>"
DictEnd ==
    <<" ", ">", ">">>

\* "<< /Length "
LengthStart ==
    <<"<", "<", " ", "/", "L", "e", "n", "g", "t", "h", " ">>

\* " >>\nstream\n"
StreamOp ==
    <<" ", ">", ">", "\n", "s", "t", "r", "e", "a", "m", "\n">>

\* "\nendstream"
EndStream ==
    <<"\n", "e", "n", "d", "s", "t", "r", "e", "a", "m">>

\* "<< /Type /Page /Parent "
PageStart ==
    <<"<", "<", " ", "/", "T", "y", "p", "e", " ", "/", "P", "a", "g", "e",
      " ", "/", "P", "a", "r", "e", "n", "t", " ">>

\* " 0 R /MediaBox [0 0 "
MediaBoxKey ==
    <<" ", "0", " ", "R", " ", "/", "M", "e", "d", "i", "a", "B", "o", "x",
      " ", "[", "0", " ", "0", " ">>

\* "] /Contents "
ContentsKey ==
    <<"]", " ", "/", "C", "o", "n", "t", "e", "n", "t", "s", " ">>

\* " 0 R /Resources << /Font << /F1 "
ResourcesKey ==
    <<" ", "0", " ", "R", " ", "/", "R", "e", "s", "o", "u", "r", "c", "e",
      "s", " ", "<", "<", " ", "/", "F", "o", "n", "t", " ", "<", "<", " ",
      "/", "F", "1", " ">>

\* " 0 R /F2 "
F2Key ==
    <<" ", "0", " ", "R", " ", "/", "F", "2", " ">>

\* " 0 R >> >> >>"
PageEnd ==
    <<" ", "0", " ", "R", " ", ">", ">", " ", ">", ">", " ", ">", ">">>

\* "xref\n"
XrefOp ==
    <<"x", "r", "e", "f", "\n">>

\* "0000000000 65535 f \n"
FreeEntry ==
    <<"0", "0", "0", "0", "0", "0", "0", "0", "0", "0", " ", "6", "5", "5",
      "3", "5", " ", "f", " ", "\n">>

\* " 00000 n \n"
InUse ==
    <<" ", "0", "0", "0", "0", "0", " ", "n", " ", "\n">>

\* "trailer\n"
TrailerOp ==
    <<"t", "r", "a", "i", "l", "e", "r", "\n">>

\* "<< /Size "
SizeStart ==
    <<"<", "<", " ", "/", "S", "i", "z", "e", " ">>

\* " /Root "
RootKey ==
    <<" ", "/", "R", "o", "o", "t", " ">>

\* " 0 R >>\n"
TrailerEnd ==
    <<" ", "0", " ", "R", " ", ">", ">", "\n">>

\* "startxref\n"
StartXref ==
    <<"s", "t", "a", "r", "t", "x", "r", "e", "f", "\n">>

\* "%%EOF\n"
Eof ==
    <<"%", "%", "E", "O", "F", "\n">>

----------------------------------------------------------------------------
(* File assembler *)

RECURSIVE AllocLoopPageFirst(_, _, _)
\* AllocLoop that allocates the page object before its stream object
AllocLoopPageFirst(streams, st, ids) ==
    IF streams = <<>> THEN [objects |-> st.objects, obj_id |-> st.obj_id, page_ids |-> ids]
    ELSE LET with_page   == add_obj(st, None)
             page_id     == with_page.obj_id
             with_stream == add_obj(with_page, Some(Head(streams)))
             stream_id   == with_stream.obj_id
         IN  AllocLoopPageFirst(Tail(streams), with_stream,
                                Append(ids, <<page_id, stream_id>>))

RECURSIVE AllocLoop(_, _, _)
\* the loop over content_streams (lines 1024-1028): a stream object and a
\* page object per sealed page
AllocLoop(streams, st, ids) ==
    IF streams = <<>> THEN [objects |-> st.objects, obj_id |-> st.obj_id, page_ids |-> ids]
    ELSE LET with_stream == add_obj(st, Some(Head(streams)))
             stream_id   == with_stream.obj_id
             with_page   == add_obj(with_stream, None)
             page_id     == with_page.obj_id
         IN  AllocLoop(Tail(streams), with_page, Append(ids, <<page_id, stream_id>>))

AllocPages ==
    LET done == AllocLoop(content_streams, [objects |-> objects, obj_id |-> obj_id], <<>>)
    IN  /\ pc = "sealed"
        /\ objects' = done.objects
        /\ obj_id' = done.obj_id
        /\ page_ids' = done.page_ids
        /\ pc' = "allocated"
        /\ UNCHANGED <<layout_vars, output_vars, wrap_vars, esc_vars, save_vars>>

\* f"{oid} 0 obj\n".encode()
ObjMarker(oid) == Digits(oid) \o ObjOp

\* write_obj that counts the offset from the end of the header
write_obj_past_header(out, oid, data) ==
    [pdf_parts |-> out.pdf_parts \o <<ObjMarker(oid), data, EndObj>>,
     offsets   |-> [k \in DOMAIN out.offsets \cup {oid} |->
                       IF k = oid THEN SumLen(Tail(out.pdf_parts)) ELSE out.offsets[k]]]

\* write_obj that records the offset after the marker is appended
write_obj_after_marker(out, oid, data) ==
    [pdf_parts |-> out.pdf_parts \o <<ObjMarker(oid), data, EndObj>>,
     offsets   |-> [k \in DOMAIN out.offsets \cup {oid} |->
                       IF k = oid THEN SumLen(out.pdf_parts) + Len(ObjMarker(oid))
                       ELSE out.offsets[k]]]

\* write_obj: record where the object starts, then its marker, data and end
write_obj(out, oid, data) ==
    LET Written(o) ==
            [pdf_parts |-> o.pdf_parts \o <<ObjMarker(oid), data, EndObj>>,
             offsets   |-> [k \in DOMAIN o.offsets \cup {oid} |->
                               IF k = oid THEN SumLen(o.pdf_parts) ELSE o.offsets[k]]]
    IN  CHOOSE result \in {Written(arg) : arg \in {out}} : TRUE

\* Kids that lists the page objects last page first
KidsReversed(ids) ==
    JoinWith(<<SP>>, [k \in 1..Len(ids) |-> Digits(ids[Len(ids) + 1 - k][1]) \o Ref])

\* Kids that names the identity after each page object
KidsOffByOne(ids) == JoinWith(<<SP>>, [k \in 1..Len(ids) |-> Digits(ids[k][1] + 1) \o Ref])

\* " ".join(f"{pid} 0 R" for pid, _ in page_ids)
Kids(ids) == JoinWith(<<SP>>, [k \in 1..Len(ids) |-> Digits(ids[k][1]) \o Ref])

CatalogData == CatalogStart \o Digits(pages_id) \o RefEnd

PagesData(ids) ==
    PagesStart \o Kids(ids) \o CountKey \o Digits(Len(ids)) \o DictEnd

\* the catalog, the page tree and the two fonts (lines 1030-1047)
WriteFixedObjects ==
    LET start    == [pdf_parts |-> <<PdfHeader>>, offsets |-> <<>>]
        catalog  == write_obj(start, catalog_id, CatalogData)
        pages    == write_obj(catalog, pages_id, PagesData(page_ids))
        font     == write_obj(pages, font_id, FontRegular)
        fontbold == write_obj(font, font_bold_id, FontBold)
    IN  /\ pc = "allocated"
        /\ pdf_parts' = fontbold.pdf_parts
        /\ offsets' = fontbold.offsets
        /\ page_idx' = 0
        /\ pc' = "pages"
        /\ UNCHANGED <<layout_vars, object_vars, out_file, wrap_vars, esc_vars, save_vars>>

\* the search of objects for the stream (lines 1050-1054): the content of
\* the first object with that identity
StreamData(objs, stream_id) ==
    LET hits  == {k \in 1..Len(objs) : objs[k][1] = stream_id}
        first == CHOOSE k \in hits : \A j \in hits : k <= j
    IN  objs[first][2][1]

\* StreamObjData that counts the newline before "endstream" in the length
StreamObjDataWithNewline(stream_data) ==
    LengthStart \o Digits(Len(stream_data) + 1) \o StreamOp \o stream_data \o EndStream

StreamObjData(stream_data) ==
    LengthStart \o Digits(Len(stream_data)) \o StreamOp \o stream_data \o EndStream

PageObjData(stream_id) ==
    PageStart \o Digits(pages_id) \o MediaBoxKey \o Digits(page_width) \o <<SP>>
      \o Digits(page_height) \o ContentsKey \o Digits(stream_id) \o ResourcesKey
      \o Digits(font_id) \o F2Key \o Digits(font_bold_id) \o PageEnd

\* WritePageObjects that writes the page object before its content stream
WritePageObjectsPageFirst ==
    LET page_id     == page_ids[page_idx + 1][1]
        stream_id   == page_ids[page_idx + 1][2]
        stream_data == StreamData(objects, stream_id)
        page        == write_obj([pdf_parts |-> pdf_parts, offsets |-> offsets],
                                 page_id, PageObjData(stream_id))
        stream      == write_obj(page, stream_id, StreamObjData(stream_data))
    IN  /\ pc = "pages"
        /\ page_idx < Len(page_ids)
        /\ pdf_parts' = stream.pdf_parts
        /\ offsets' = stream.offsets
        /\ page_idx' = page_idx + 1
        /\ UNCHANGED <<pc, layout_vars, object_vars, out_file, wrap_vars, esc_vars, save_vars>>

\* one pass of the loop over page_ids (lines 1049-1066)
WritePageObjects ==
    LET page_id     == page_ids[page_idx + 1][1]
        stream_id   == page_ids[page_idx + 1][2]
        stream_data == StreamData(objects, stream_id)
        stream      == write_obj([pdf_parts |-> pdf_parts, offsets |-> offsets],
                                 stream_id, StreamObjData(stream_data))
        page        == write_obj(stream, page_id, PageObjData(stream_id))
    IN  /\ pc = "pages"
        /\ page_idx < Len(page_ids)
        /\ pdf_parts' = page.pdf_parts
        /\ offsets' = page.offsets
        /\ page_idx' = page_idx + 1
        /\ UNCHANGED <<pc, layout_vars, object_vars, out_file, wrap_vars, esc_vars, save_vars>>

\* offsets.get(oid, 0)
OffsetOf(offs, oid) == IF oid \in DOMAIN offs THEN offs[oid] ELSE 0

\* XrefParts whose trailer gives the highest identity as /Size
XrefPartsSizeLast(xref_offset, offs, last_id) ==
    <<XrefOp, Digits(0) \o <<SP>> \o Digits(last_id + 1) \o <<NL>>, FreeEntry>>
      \o [oid \in 1..last_id |-> Digits010(OffsetOf(offs, oid)) \o InUse]
      \o <<TrailerOp,
           SizeStart \o Digits(last_id) \o RootKey \o Digits(catalog_id) \o TrailerEnd,
           StartXref,
           Digits(xref_offset) \o <<NL>>,
           Eof>>

\* the cross-reference section, trailer and end marker (lines 1068-1082)
XrefParts(xref_offset, offs, last_id) ==
    <<XrefOp, Digits(0) \o <<SP>> \o Digits(last_id + 1) \o <<NL>>, FreeEntry>>
      \o [oid \in 1..last_id |-> Digits010(OffsetOf(offs, oid)) \o InUse]
      \o <<TrailerOp,
           SizeStart \o Digits(last_id + 1) \o RootKey \o Digits(catalog_id) \o TrailerEnd,
           StartXref,
           Digits(xref_offset) \o <<NL>>,
           Eof>>

\* WriteXref that also hands the objects written so far to the file
WriteXrefFlushing ==
    /\ pc = "pages"
    /\ page_idx = Len(page_ids)
    /\ pdf_parts' = pdf_parts \o XrefParts(SumLen(pdf_parts), offsets, obj_id)
    /\ out_file' = Flatten(pdf_parts)
    /\ pc' = "assembled"
    /\ UNCHANGED <<layout_vars, object_vars, page_idx, offsets, wrap_vars, esc_vars, save_vars>>

\* WriteXref that takes the offset after the "xref" keyword is appended
WriteXrefLateOffset ==
    /\ pc = "pages"
    /\ page_idx = Len(page_ids)
    /\ pdf_parts' = pdf_parts \o XrefParts(SumLen(pdf_parts) + Len(XrefOp), offsets, obj_id)
    /\ pc' = "assembled"
    /\ UNCHANGED <<layout_vars, object_vars, page_idx, offsets, out_file, wrap_vars, esc_vars, save_vars>>

WriteXref ==
    /\ pc = "pages"
    /\ page_idx = Len(page_ids)
    /\ pdf_parts' = pdf_parts \o XrefParts(SumLen(pdf_parts), offsets, obj_id)
    /\ pc' = "assembled"
    /\ UNCHANGED <<layout_vars, object_vars, page_idx, offsets, out_file, wrap_vars, esc_vars, save_vars>>

\* the single write of the joined parts (lines 1084-1088)
WriteFile ==
    /\ pc = "assembled"
    /\ out_file' = Flatten(pdf_parts)
    /\ files' = Without(files, filepath)
    /\ pc' = "done"
    /\ UNCHANGED <<layout_vars, object_vars, page_idx, pdf_parts, offsets, wrap_vars,
                   esc_vars, filepath, lo_path>>

Next ==
    \/ \E para \in Paragraphs : BlankRecord(para)
    \/ \E para \in Paragraphs : TextRecord(para)
    \/ EmitLine
    \/ FinalSeal
    \/ AllocPages
    \/ WriteFixedObjects
    \/ WritePageObjects
    \/ WriteXref
    \/ WriteFile

Spec == Init /\ [][Next]_vars

\* The emitter as a sequential program: a step of the call that can be taken
\* is taken.  Reading one more record is not forced: the records are a
\* finite sequence, and after the last one comes the final seal.
FairSpec ==
    /\ Spec
    /\ WF_vars(EmitLine)
    /\ WF_vars(FinalSeal)
    /\ WF_vars(AllocPages)
    /\ WF_vars(WriteFixedObjects)
    /\ WF_vars(WritePageObjects)
    /\ WF_vars(WriteXref)
    /\ WF_vars(WriteFile)

----------------------------------------------------------------------------
(* save_pdf *)

SaveInit ==
    /\ pc = "save_pdf"
    /\ lines = <<>>
    /\ wrapped = <<>>
    /\ is_heading = FALSE
    /\ y = TopOfPage
    /\ current_stream_lines = <<BgLine, BT>>
    /\ content_streams = <<>>
    /\ objects = WithFontBold.objects
    /\ obj_id = WithFontBold.obj_id
    /\ page_ids = <<>>
    /\ page_idx = 0
    /\ pdf_parts = <<>>
    /\ offsets = <<>>
    /\ out_file = <<>>
    /\ w_text = <<>>
    /\ w_width = 0
    /\ w_result = <<>>
    /\ w_pc = "idle"
    /\ e_text = <<>>
    /\ e_result = <<>>
    /\ e_pc = "idle"
    /\ filepath \in FilePaths
    /\ lo_path = FALSE
    /\ \E old \in BOOLEAN :
          files = IF old THEN With(NoFiles, expected_pdf_of(filepath), "old") ELSE NoFiles

\* save_docx(docx_path) (lines 884-885)
SaveDocx ==
    /\ pc = "save_pdf"
    /\ files' = With(files, docx_path_of(filepath), "docx")
    /\ pc' = "which"
    /\ UNCHANGED <<layout_vars, object_vars, output_vars, wrap_vars, esc_vars, filepath, lo_path>>

\* shutil.which (lines 888-889): a converter is found or not; without one,
\* the fallback (line 903)
Which(found) ==
    /\ pc = "which"
    /\ lo_path' = found
    /\ pc' = IF found THEN "convert" ELSE "layout"
    /\ UNCHANGED <<layout_vars, object_vars, output_vars, wrap_vars, esc_vars, filepath, files>>

\* subprocess.run (lines 891-895): the converter writes its PDF, or exits
\* without one, or is still running after the timeout and run raises
RunConverter(outcome) ==
    /\ pc = "convert"
    /\ files' = IF outcome = "converted"
                THEN With(files, ConvertedPdf(filepath), "converted")
                ELSE files
    /\ pc' = IF outcome = "timeout" THEN "raised" ELSE "ran"
    /\ UNCHANGED <<layout_vars, object_vars, output_vars, wrap_vars, esc_vars, filepath, lo_path>>

\* lines 896-903: the expected PDF is there, is moved to filepath and
\* save_pdf returns; or it is not, and the fallback runs
CheckExpected ==
    LET expected_pdf == expected_pdf_of(filepath)
    IN  /\ pc = "ran"
        /\ IF expected_pdf \in DOMAIN files
           THEN /\ files' = IF expected_pdf # filepath
                            THEN With(Without(files, expected_pdf), filepath,
                                      files[expected_pdf])
                            ELSE files
                /\ pc' = "returned"
           ELSE /\ pc' = "layout"
                /\ UNCHANGED files
        /\ UNCHANGED <<layout_vars, object_vars, output_vars, wrap_vars, esc_vars, filepath, lo_path>>

SaveNext ==
    \/ SaveDocx
    \/ \E found \in BOOLEAN : Which(found)
    \/ \E outcome \in {"converted", "failed", "timeout"} : RunConverter(outcome)
    \/ CheckExpected
    \/ Next

SaveSpec == SaveInit /\ [][SaveNext]_vars

----------------------------------------------------------------------------
(* wrap_text on its own *)

MaxTextLen == 5
MaxWidth == 4

WrapAlphabet == {"a", "b", SP, NL}

WrapTexts == UNION {[1..n -> WrapAlphabet] : n \in 0..MaxTextLen}

WrapInit ==
    /\ pc = "wrap"
    /\ lines = <<>>
    /\ wrapped = <<>>
    /\ is_heading = FALSE
    /\ y = TopOfPage
    /\ current_stream_lines = <<>>
    /\ content_streams = <<>>
    /\ objects = <<>>
    /\ obj_id = 0
    /\ page_ids = <<>>
    /\ page_idx = 0
    /\ pdf_parts = <<>>
    /\ offsets = <<>>
    /\ out_file = <<>>
    /\ w_text \in WrapTexts
    /\ w_width \in 0..MaxWidth
    /\ w_result = <<>>
    /\ w_pc = "call"
    /\ e_text = <<>>
    /\ e_result = <<>>
    /\ e_pc = "idle"
    /\ filepath = DirectPath
    /\ lo_path = FALSE
    /\ files = NoFiles

\* a call of wrap_text(w_text, w_width)
WrapCall ==
    /\ w_pc = "call"
    /\ w_result' = wrap_text(w_text, w_width)
    /\ w_pc' = "returned"
    /\ UNCHANGED <<pc, layout_vars, object_vars, output_vars, w_text, w_width,
                   esc_vars, save_vars>>

WrapNext == WrapCall

WrapSpec == WrapInit /\ [][WrapNext]_vars

----------------------------------------------------------------------------
(* escape_pdf on its own *)

MaxEscLen == 4

EscAlphabet == {"a", BSL, LPAR, RPAR}

EscTexts == UNION {[1..n -> EscAlphabet] : n \in 0..MaxEscLen}

EscInit ==
    /\ pc = "escape"
    /\ lines = <<>>
    /\ wrapped = <<>>
    /\ is_heading = FALSE
    /\ y = TopOfPage
    /\ current_stream_lines = <<>>
    /\ content_streams = <<>>
    /\ objects = <<>>
    /\ obj_id = 0
    /\ page_ids = <<>>
    /\ page_idx = 0
    /\ pdf_parts = <<>>
    /\ offsets = <<>>
    /\ out_file = <<>>
    /\ w_text = <<>>
    /\ w_width = 0
    /\ w_result = <<>>
    /\ w_pc = "idle"
    /\ e_text \in EscTexts
    /\ e_result = <<>>
    /\ e_pc = "call"
    /\ filepath = DirectPath
    /\ lo_path = FALSE
    /\ files = NoFiles

\* a call of escape_pdf(e_text)
EscapeCall ==
    /\ e_pc = "call"
    /\ e_result' = escape_pdf(e_text)
    /\ e_pc' = "returned"
    /\ UNCHANGED <<pc, layout_vars, object_vars, output_vars, wrap_vars, e_text, save_vars>>

EscNext == EscapeCall

EscSpec == EscInit /\ [][EscNext]_vars

----------------------------------------------------------------------------
(* Properties of wrap_text, under WrapSpec *)

\* the words of a sequence of lines, in line order
WordsOf(result) == Flatten([i \in 1..Len(result) |-> Split(result[i])])

\* C4 (width bound): every line wrap_text returns has at most chars_per_line
\* characters, except a line that is one word of the text longer than
\* chars_per_line, which stands alone on its line, whole.
C4_WidthBound ==
    w_pc = "returned" =>
        \A i \in 1..Len(w_result) :
            LET L == w_result[i]
            IN  \/ Len(L) <= w_width
                \/ /\ Split(L) = <<L>>
                   /\ \E k \in 1..Len(Split(w_text)) : Split(w_text)[k] = L

\* C4 witness: a returned wrapping of several lines, one of them a word
\* longer than the width.
C4_Witness ==
    /\ w_pc = "returned"
    /\ Len(w_result) >= 2
    /\ \E i \in 1..Len(w_result) : Len(w_result[i]) > w_width
    /\ \E i \in 1..Len(w_result) : Len(w_result[i]) <= w_width /\ w_result[i] # <<>>

\* C5 (no content loss): the words of the returned lines, in line order, are
\* exactly the words of the text, in order.
C5_NoContentLoss ==
    w_pc = "returned" => WordsOf(w_result) = Split(w_text)

\* C5 witness: a text of at least three words returned on at least two lines.
C5_Witness ==
    /\ w_pc = "returned"
    /\ Len(Split(w_text)) >= 3
    /\ Len(w_result) >= 2

\* C6 (idempotence): wrapping a returned line that is within the width, at
\* the same width, returns that line alone.
C6_Idempotence ==
    w_pc = "returned" =>
        \A i \in 1..Len(w_result) :
            Len(w_result[i]) <= w_width =>
                wrap_text(w_result[i], w_width) = <<w_result[i]>>

\* C6 witness: a wrapping returned on two lines or more, one of them of
\* several words and within the width.
C6_Witness ==
    /\ w_pc = "returned"
    /\ Len(w_result) >= 2
    /\ \E i \in 1..Len(w_result) :
          Len(w_result[i]) <= w_width /\ Len(Split(w_result[i])) >= 2

----------------------------------------------------------------------------
(* Reading the output back *)

Min(a, b) == IF a < b THEN a ELSE b

\* the end of the run of digits that starts at b[p]
DigitRunEnd(b, p) ==
    CHOOSE q \in p..Min(Len(b), p + 10) :
        /\ \A r \in p..q : IsDigit(b[r])
        /\ q = Len(b) \/ ~IsDigit(b[q + 1])

\* the start of the run of digits that ends at b[q]
DigitRunStart(b, q) ==
    CHOOSE p \in Max(1, q - 10)..q :
        /\ \A r \in p..q : IsDigit(b[r])
        /\ p = 1 \/ ~IsDigit(b[p - 1])

\* the number written at b[p]
NatAt(b, p) == ParseNat(SubSeq(b, p, DigitRunEnd(b, p)))

\* the number after the startxref keyword: the line before the end marker
StartXrefValue(b) ==
    LET last == Len(b) - Len(Eof) - 1
    IN  ParseNat(SubSeq(b, DigitRunStart(b, last), last))

\* the file ends "startxref\n<number>\n%%EOF\n"
HasStartXref(b) ==
    LET last  == Len(b) - Len(Eof) - 1
        first == DigitRunStart(b, last)
    IN  /\ EndsWith(b, Eof)
        /\ IsDigit(b[last])
        /\ b[last + 1] = NL
        /\ SubSeq(b, first - Len(StartXref), first - 1) = StartXref

\* the entry count the cross-reference section declares: "xref\n0 <count>\n"
XrefCount(b) == NatAt(b, StartXrefValue(b) + Len(XrefOp) + 3)

\* the number of bytes before entry 0 of the cross-reference section
XrefEntries(b) ==
    StartXrefValue(b) + Len(XrefOp) + 2 + Len(Digits(XrefCount(b))) + 1

\* the offset recorded in the 20-byte cross-reference entry of identity i
XrefEntryOffset(b, i) ==
    LET at == XrefEntries(b) + Len(FreeEntry) * i
    IN  ParseNat(SubSeq(b, at + 1, at + 10))

\* byte position off (counted from 0) is where the line "<i> 0 obj" begins
MarkerAt(b, off, i) ==
    /\ off >= 1
    /\ b[off] = NL
    /\ SubSeq(b, off + 1, off + Len(ObjMarker(i))) = ObjMarker(i)

\* the identities n that b names as "n 0 R"
RefsIn(b) ==
    {ParseNat(SubSeq(b, DigitRunStart(b, p - 1), p - 1)) :
        p \in {q \in 2..(Len(b) - Len(Ref) + 1) :
                  SubSeq(b, q, q + Len(Ref) - 1) = Ref /\ IsDigit(b[q - 1])}}

\* the indexes in pdf_parts of the object payloads: each is followed by its
\* "endobj" part and follows its "N 0 obj" part
PayloadParts == {k \in 3..(Len(pdf_parts) - 1) : pdf_parts[k + 1] = EndObj}

\* the identities of the objects written
WrittenIds ==
    {ParseNat(SubSeq(pdf_parts[k - 1], 1, Len(pdf_parts[k - 1]) - Len(ObjOp))) :
        k \in PayloadParts}

\* the dictionary of a payload: all of it, or what precedes the stream data
DictOf(data) ==
    IF StartsWith(data, LengthStart)
    THEN SubSeq(data, 1, DigitRunEnd(data, Len(LengthStart) + 1) + Len(DictEnd))
    ELSE data

\* every identity referenced by an object dictionary or by the trailer
AllRefs ==
    UNION ({RefsIn(DictOf(pdf_parts[k])) : k \in PayloadParts}
           \cup {RefsIn(pdf_parts[k]) :
                   k \in {j \in 1..Len(pdf_parts) : StartsWith(pdf_parts[j], SizeStart)}})

\* the positions in the bytes of a page where a text-show line begins: the
\* only operator lines that begin with "/"
DrawStarts(b) == {p \in 2..Len(b) : b[p] = "/" /\ b[p - 1] = NL}

\* the first space at or after b[p]
NextSpace(b, p) ==
    CHOOSE q \in p..Min(Len(b), p + 12) : b[q] = SP /\ \A r \in p..(q - 1) : b[r] # SP

\* the fields of the text-show line that begins at b[p]:
\* "<font_ref> <size> Tf <x> <y> Td (<text>) Tj"
DrawFontRef(b, p) == SubSeq(b, p, NextSpace(b, p) - 1)
DrawSize(b, p) == NatAt(b, NextSpace(b, p) + 1)
DrawXPos(b, p) == NextSpace(b, NextSpace(b, NextSpace(b, p) + 1) + 1) + 1
DrawX(b, p) == NatAt(b, DrawXPos(b, p))
DrawYPos(b, p) == NextSpace(b, DrawXPos(b, p)) + 1
DrawY(b, p) == NatAt(b, DrawYPos(b, p))
DrawText(b, p) ==
    LET open == NextSpace(b, NextSpace(b, DrawYPos(b, p)) + 1) + 1
        nls  == {q \in p..Len(b) : b[q] = NL}
        stop == IF nls = {} THEN Len(b) + 1 ELSE CHOOSE q \in nls : \A r \in nls : q <= r
    IN  SubSeq(b, open + 1, stop - 1 - Len(TjOp))

\* the k-th smallest element of a set of numbers
Nth(S, k) == CHOOSE i \in S : Cardinality({j \in S : j <= i}) = k

\* the text-show lines among operator lines not yet joined
DrawLines(stream_lines) ==
    {k \in 1..Len(stream_lines) : StartsWith(stream_lines[k], <<"/">>)}

----------------------------------------------------------------------------
(* Properties of the emitter, under Spec *)

\* C1 (offset correctness): in the bytes written, the cross-reference
\* section has an entry for every identity 1..obj_id, and the offset each
\* entry records is the byte position, counted from the start of the file,
\* at which the line "<identity> 0 obj" begins.
C1_OffsetCorrectness ==
    pc = "done" =>
        /\ HasStartXref(out_file)
        /\ XrefCount(out_file) = obj_id + 1
        /\ \A i \in 1..obj_id :
              MarkerAt(out_file, XrefEntryOffset(out_file, i), i)

\* C1 witness: a written file of three pages, ten objects.
C1_Witness ==
    /\ pc = "done"
    /\ Len(content_streams) = 3
    /\ obj_id = 10
    /\ XrefEntryOffset(out_file, 10) > XrefEntryOffset(out_file, 9)

\* C2 (reference closure): once the file is assembled, every identity
\* referenced by an object dictionary or by the trailer is the identity of
\* an object written to the file.
C2_ReferenceClosure ==
    pc \in {"assembled", "done"} => AllRefs \subseteq WrittenIds

\* C2 witness: an assembled file of two pages whose dictionaries and trailer
\* reference all eight identities.
C2_Witness ==
    /\ pc = "assembled"
    /\ Len(page_ids) = 2
    /\ AllRefs = 1..8
    /\ WrittenIds = 1..8

\* every text-show line of every sealed page has its y in the set Ys
DrawnWithin(Ys) ==
    \A k \in 1..Len(content_streams) :
        \A p \in DrawStarts(content_streams[k]) : DrawY(content_streams[k], p) \in Ys

DrawIs(page, k, font_ref, size, x, yy, text) ==
    LET p == Nth(DrawStarts(page), k)
    IN  /\ DrawFontRef(page, p) = font_ref
        /\ DrawSize(page, p) = size
        /\ DrawX(page, p) = x
        /\ DrawY(page, p) = yy
        /\ DrawText(page, p) = text

\* C7 (scenario A), as the code has it: the input ("Title", heading),
\* ("", body), ("Hello world.", body) gives exactly one page with two
\* text-show lines, the empty record drawing nothing: the first in the bold
\* font at size 16, centred (x = (612 - 5 * 16 * 0.5) / 2 = 286) at the top
\* (y = 720); the second and last in the regular font at size 11 at the
\* left margin (x = 72), at y = 720 - 22.4 - 12 printed as 686.
C7_ScenarioA ==
    (pc = "sealed" /\ lines = ScenarioA) =>
        /\ Len(content_streams) = 1
        /\ Cardinality(DrawStarts(content_streams[1])) = 2
        /\ DrawIs(content_streams[1], 1, F2, 16, 286, 720, ScenarioA[1][1])
        /\ DrawIs(content_streams[1], 2, F1, 11, 72, 686, ScenarioA[3][1])

\* C7 as claimed: one page with three text-show lines, the first centred at
\* size 16 and the third at the left margin at size 11.
C7_Original ==
    (pc = "sealed" /\ lines = ScenarioA) =>
        /\ Len(content_streams) = 1
        /\ Cardinality(DrawStarts(content_streams[1])) = 3
        /\ DrawIs(content_streams[1], 1, F2, 16, 286, 720, ScenarioA[1][1])
        /\ DrawSize(content_streams[1], Nth(DrawStarts(content_streams[1]), 3)) = 11
        /\ DrawX(content_streams[1], Nth(DrawStarts(content_streams[1]), 3)) = margin

\* C7 witness: scenario A laid out and sealed.
C7_Witness ==
    /\ pc = "sealed"
    /\ lines = ScenarioA
    /\ ScenarioA = << <<ParaTitle.text, TRUE>>, << <<>>, FALSE>>, <<ParaHello.text, FALSE>> >>

\* records that are body text and wrap to one line each
SingleLineBody(ls) ==
    \A i \in 1..Len(ls) :
        ls[i][1] # <<>> /\ ~ls[i][2] /\ Len(wrap_text(ls[i][1], BodyWidth)) = 1

\* C8 (page break on overflow): a step that emits a wrapped line seals the
\* page in progress exactly when y - line_height < margin, the sealed page
\* then holds the lines emitted before, and the line that caused the break
\* is the only text-show line of the new page, drawn at y = 720.  And N body
\* records of one line each, 43 <= N <= 84, give exactly two pages: 42 lines
\* on the first, and record 43 (escaped, in latin-1) first on the second at
\* y = 720.
C8_PageBreak ==
    [][ /\ pc = "wrapped" =>
            LET lh     == FontTimesOnePointFour(IF is_heading THEN 16 ELSE 11)
                sealed == Len(content_streams') = Len(content_streams) + 1
                drawn  == DrawLines(current_stream_lines')
                emitted == current_stream_lines'[Len(current_stream_lines')]
            IN  /\ sealed <=> FLess(FSub(y, lh), FromInt(72))
                /\ ~sealed => content_streams' = content_streams
                /\ sealed =>
                     /\ SubSeq(content_streams', 1, Len(content_streams)) = content_streams
                     /\ Cardinality(DrawStarts(content_streams'[Len(content_streams')]))
                           = Cardinality(DrawLines(current_stream_lines))
                     /\ drawn = {Len(current_stream_lines')}
                     /\ DrawY(emitted, 1) = 720
                     /\ DrawText(emitted, 1) = escape_pdf(Head(wrapped))
        /\ (pc' = "sealed" /\ SingleLineBody(lines') /\ Len(lines') \in 43..84) =>
              /\ Len(content_streams') = 2
              /\ Cardinality(DrawStarts(content_streams'[1])) = 42
              /\ Cardinality(DrawStarts(content_streams'[2])) = Len(lines') - 42
              /\ LET first == Nth(DrawStarts(content_streams'[2]), 1)
                 IN  /\ DrawY(content_streams'[2], first) = 720
                     /\ DrawText(content_streams'[2], first)
                           = EncodeLatin1(escape_pdf(lines'[43][1]))
      ]_vars

\* C8 witness: 43 one-line body records sealed on two pages, the 43rd, unlike
\* the others, first on the second page.
C8_Witness ==
    /\ pc = "sealed"
    /\ Len(lines) = 43
    /\ SingleLineBody(lines)
    /\ lines[43] # lines[42]
    /\ Len(content_streams) = 2
    /\ DrawText(content_streams[2], Nth(DrawStarts(content_streams[2]), 1))
          = EncodeLatin1(escape_pdf(lines[43][1]))

\* C9 (final seal): the step after the last record seals the page in
\* progress, whatever it holds, with every text-show line it holds; from
\* then on there is at least one sealed page and no operator line outside a
\* sealed page.
C9_FinalSeal ==
    [][ /\ (pc = "layout" /\ pc' = "sealed") =>
              /\ Len(content_streams') = Len(content_streams) + 1
              /\ SubSeq(content_streams', 1, Len(content_streams)) = content_streams
              /\ Cardinality(DrawStarts(content_streams'[Len(content_streams')]))
                    = Cardinality(DrawLines(current_stream_lines))
        /\ pc' \in {"sealed", "allocated", "pages", "assembled", "done"} =>
              /\ Len(content_streams') >= 1
              /\ current_stream_lines' = <<>>
              /\ wrapped' = <<>>
      ]_vars

\* C9 witness: five empty records and nothing else, sealed as one page that
\* shows no text.
C9_Witness ==
    /\ pc = "sealed"
    /\ lines = [i \in 1..5 |-> << <<>>, FALSE >>]
    /\ Len(content_streams) = 1
    /\ DrawStarts(content_streams[1]) = {}

\* C10 (identity allocation): with P >= 1 sealed pages, the catalog is 1,
\* the page tree 2, the regular font 3, the bold font 4, and page k (from 0)
\* has its content stream at 5 + 2k and its page object at 6 + 2k; the
\* identities are 1..4 + 2P, each once, in order.
C10_IdentityAllocation ==
    pc \in {"allocated", "pages", "assembled", "done"} =>
        LET P == Len(content_streams)
        IN  /\ P >= 1
            /\ catalog_id = 1 /\ pages_id = 2 /\ font_id = 3 /\ font_bold_id = 4
            /\ objects[1] = <<1, None>> /\ objects[2] = <<2, None>>
            /\ objects[3] = <<3, Some(FontRegular)>>
            /\ objects[4] = <<4, Some(FontBold)>>
            /\ Len(page_ids) = P
            /\ \A k \in 0..(P - 1) :
                  /\ page_ids[k + 1] = <<6 + 2 * k, 5 + 2 * k>>
                  /\ objects[5 + 2 * k] = <<5 + 2 * k, Some(content_streams[k + 1])>>
                  /\ objects[6 + 2 * k] = <<6 + 2 * k, None>>
            /\ obj_id = 4 + 2 * P
            /\ Len(objects) = obj_id
            /\ \A j \in 1..Len(objects) : objects[j][1] = j

\* C10 witness: three pages allocated, the last page object being 10.
C10_Witness ==
    /\ pc = "allocated"
    /\ Len(content_streams) = 3
    /\ page_ids[3] = <<10, 9>>

\* the identity written in the "N 0 obj" part before the payload part k
IdOfPayload(k) ==
    ParseNat(SubSeq(pdf_parts[k - 1], 1, Len(pdf_parts[k - 1]) - Len(ObjOp)))

\* the indexes of the parts that equal the byte string part
PartsEqual(part) == {k \in 1..Len(pdf_parts) : pdf_parts[k] = part}

\* C11 (serialization order): the parts of the output begin with the
\* header, every object written so far follows it in strictly ascending
\* identity order, and once the output is assembled, the cross-reference
\* section, the trailer, the startxref offset and the end marker come after
\* every object, in that order and once each; the bytes written to the file
\* are these parts joined, so the header is first and the end marker last.
C11_SerializationOrder ==
    /\ pc \in {"pages", "assembled", "done"} =>
          /\ pdf_parts[1] = PdfHeader
          /\ PartsEqual(PdfHeader) = {1}
          /\ \A k \in PayloadParts :
                /\ pdf_parts[k - 1] = ObjMarker(IdOfPayload(k))
                /\ \A j \in PayloadParts : j < k => IdOfPayload(j) < IdOfPayload(k)
    /\ pc = "pages" => PartsEqual(XrefOp) = {}
    /\ pc \in {"assembled", "done"} =>
          LET n     == Len(pdf_parts)
              xref  == CHOOSE k \in PartsEqual(XrefOp) : TRUE
              trail == CHOOSE k \in PartsEqual(TrailerOp) : TRUE
          IN  /\ {IdOfPayload(k) : k \in PayloadParts} = 1..obj_id
              /\ Cardinality(PartsEqual(XrefOp)) = 1
              /\ Cardinality(PartsEqual(TrailerOp)) = 1
              /\ \A k \in PayloadParts : k + 1 < xref
              /\ xref < trail
              /\ trail = n - 4
              /\ StartsWith(pdf_parts[n - 3], SizeStart)
              /\ pdf_parts[n - 2] = StartXref
              /\ pdf_parts[n - 1] = Digits(SumLen(SubSeq(pdf_parts, 1, xref - 1))) \o <<NL>>
              /\ pdf_parts[n] = Eof
    /\ pc = "done" =>
          /\ out_file = Flatten(pdf_parts)
          /\ StartsWith(out_file, PdfHeader)
          /\ EndsWith(out_file, Eof)

\* C11 witness: a written file of two pages, its eight objects between the
\* header and the cross-reference section.
C11_Witness ==
    /\ pc = "done"
    /\ Len(page_ids) = 2
    /\ Cardinality(PayloadParts) = 8
    /\ PartsEqual(XrefOp) = {1 + 3 * 8 + 1}

\* the 20 bytes of entry i of the cross-reference section, entry 0 first
XrefEntry(b, i) ==
    LET at == XrefEntries(b) + 20 * i
    IN  SubSeq(b, at + 1, at + 20)

\* ten digits, a space, five digits, a space, the kind, a space, a newline
IsXrefEntry(e, generation, kind) ==
    /\ Len(e) = 20
    /\ \A r \in 1..10 : IsDigit(e[r])
    /\ SubSeq(e, 11, 20) = <<SP>> \o generation \o <<SP, kind, SP, NL>>

\* C12 (cross-reference section shape): in the bytes written, the section
\* opens "xref" and "0 <count>" with count = highest identity + 1; entry 0
\* is the one free entry ("0000000000 65535 f "); entries 1..N are in-use
\* entries of 20 bytes each, entry i holding the offset captured for
\* identity i; the trailer follows the last of them at once, and its /Size
\* is the same count.
C12_XrefShape ==
    pc = "done" =>
        LET b      == out_file
            start  == StartXrefValue(b)
            count  == XrefCount(b)
            after  == XrefEntries(b) + 20 * count
        IN  /\ SubSeq(b, start + 1, start + Len(XrefOp) + 2) = XrefOp \o <<"0", SP>>
            /\ count = obj_id + 1
            /\ b[XrefEntries(b)] = NL
            /\ IsXrefEntry(XrefEntry(b, 0), <<"6", "5", "5", "3", "5">>, "f")
            /\ XrefEntry(b, 0) = FreeEntry
            /\ \A i \in 1..obj_id :
                  /\ IsXrefEntry(XrefEntry(b, i), <<"0", "0", "0", "0", "0">>, "n")
                  /\ XrefEntryOffset(b, i) = offsets[i]
            /\ SubSeq(b, after + 1, after + Len(TrailerOp)) = TrailerOp
            /\ SubSeq(b, after + Len(TrailerOp) + 1,
                         after + Len(TrailerOp) + Len(SizeStart)) = SizeStart
            /\ NatAt(b, after + Len(TrailerOp) + Len(SizeStart) + 1) = count

\* C12 witness: a written file of three pages: eleven entries, the last
\* for identity 10, then the trailer with /Size 11.
C12_Witness ==
    /\ pc = "done"
    /\ obj_id = 10
    /\ XrefCount(out_file) = 11
    /\ XrefEntry(out_file, 10) = Digits010(offsets[10]) \o InUse
    /\ offsets[10] > 1000

\* the positions in b of the references "n 0 R", and the identities they
\* name in the order of the text
RefPositions(b) ==
    {q \in 2..(Len(b) - Len(Ref) + 1) :
        SubSeq(b, q, q + Len(Ref) - 1) = Ref /\ IsDigit(b[q - 1])}

RefSeq(b) ==
    [k \in 1..Cardinality(RefPositions(b)) |->
        LET q == Nth(RefPositions(b), k)
        IN  ParseNat(SubSeq(b, DigitRunStart(b, q - 1), q - 1))]

\* the payload written for an identity
PayloadOf(oid) == pdf_parts[CHOOSE k \in PayloadParts : IdOfPayload(k) = oid]

\* the identities written as page objects
PageObjectIds == {IdOfPayload(k) : k \in {j \in PayloadParts : StartsWith(pdf_parts[j], PageStart)}}

\* the bytes between "stream\n" and "\nendstream" of a stream payload
StreamBytes(data) ==
    SubSeq(data, Len(DictOf(data)) - Len(DictEnd) + Len(StreamOp) + 1,
           Len(data) - Len(EndStream))

\* C13 (page-tree completeness): in the assembled output the catalog holds
\* one reference, to an object that is a page tree; the /Kids of that page
\* tree name the page objects, each once and no other object, the k-th kid
\* being the page whose /Contents is the k-th sealed page; and /Count is
\* the number of sealed pages.
C13_PageTree ==
    pc \in {"assembled", "done"} =>
        LET catalog == PayloadOf(1)
            tree_id == RefSeq(catalog)[1]
            tree    == PayloadOf(tree_id)
            kids    == RefSeq(tree)
            close   == CHOOSE q \in 1..Len(tree) : tree[q] = "]"
        IN  /\ StartsWith(catalog, CatalogStart)
            /\ Len(RefSeq(catalog)) = 1
            /\ StartsWith(tree, PagesStart)
            /\ Len(kids) = Len(content_streams)
            /\ {kids[k] : k \in 1..Len(kids)} = PageObjectIds
            /\ \A j, k \in 1..Len(kids) : kids[j] = kids[k] => j = k
            /\ \A k \in 1..Len(kids) :
                  LET page == PayloadOf(kids[k])
                  IN  /\ StartsWith(page, PageStart)
                      /\ RefSeq(page)[1] = tree_id
                      /\ StreamBytes(PayloadOf(RefSeq(page)[2])) = content_streams[k]
            /\ \A q \in RefPositions(tree) : q < close
            /\ SubSeq(tree, close, close + Len(CountKey) - 1) = CountKey
            /\ NatAt(tree, close + Len(CountKey)) = Len(content_streams)

\* C13 witness: three sealed pages that differ from one another, the page
\* tree naming the page objects 6, 8 and 10 in that order.
C13_Witness ==
    /\ pc = "assembled"
    /\ Len(content_streams) = 3
    /\ content_streams[1] # content_streams[2]
    /\ content_streams[2] # content_streams[3]
    /\ RefSeq(PayloadOf(2)) = <<6, 8, 10>>

\* C14 (no partial output): the bytes at the output path change in one
\* step only, the one that follows the assembly: before it nothing is
\* written, every record is wrapped and drawn, every page sealed and every
\* object, the cross-reference section and the end marker are in pdf_parts;
\* after it the file holds all of pdf_parts joined, header first and end
\* marker last.  In every state the file holds nothing or all of it.
C14_NoPartialOutput ==
    [][ /\ out_file' # out_file =>
              /\ pc = "assembled" /\ pc' = "done"
              /\ out_file = <<>>
              /\ wrapped = <<>> /\ current_stream_lines = <<>>
              /\ Len(page_ids) = Len(content_streams) /\ page_idx = Len(page_ids)
              /\ pdf_parts[Len(pdf_parts)] = Eof
              /\ pdf_parts' = pdf_parts
              /\ out_file' = Flatten(pdf_parts)
        /\ \/ out_file' = <<>> /\ pc' # "done"
           \/ /\ pc' = "done"
              /\ Len(out_file') = SumLen(pdf_parts')
              /\ StartsWith(out_file', PdfHeader)
              /\ EndsWith(out_file', Eof)
      ]_vars

\* C14 witness: the file written whole for a document of 86 records, and
\* not changed since.
C14_Witness ==
    /\ pc = "done"
    /\ Len(lines) = MaxRecords
    /\ out_file = Flatten(pdf_parts)
    /\ Len(out_file) > 2000

----------------------------------------------------------------------------
(* Properties of escape_pdf, under EscSpec *)

Special == {BSL, LPAR, RPAR}

RECURSIVE Unescape(_)
\* read from the left: a backslash stands for the character after it
Unescape(s) ==
    IF s = <<>> THEN <<>>
    ELSE IF s[1] = BSL /\ Len(s) >= 2
         THEN <<s[2]>> \o Unescape(SubSeq(s, 3, Len(s)))
         ELSE <<s[1]>> \o Unescape(Tail(s))

\* the position in the escaped text of character i of text, when each
\* backslash and parenthesis before it takes two places
EscapedAt(text, i) ==
    i + Cardinality({j \in 1..i : text[j] \in Special})

\* C15 (escaping): the text returned holds the characters of the text in
\* order, each backslash, "(" and ")" with one backslash put before it and
\* every other character as it was, and nothing else; removing, from the
\* left, the backslash before each escaped character gives the text back.
C15_Escaping ==
    e_pc = "returned" =>
        /\ Len(e_result) = EscapedAt(e_text, Len(e_text))
        /\ \A i \in 1..Len(e_text) :
              /\ e_result[EscapedAt(e_text, i)] = e_text[i]
              /\ e_text[i] \in Special => e_result[EscapedAt(e_text, i) - 1] = BSL
        /\ Unescape(e_result) = e_text

\* C15 witness: a text with a backslash before a parenthesis, and one with
\* a parenthesis before a backslash.
C15_Witness ==
    /\ e_pc = "returned"
    /\ Len(e_text) = MaxEscLen
    /\ \E i \in 1..(Len(e_text) - 1) : e_text[i] = BSL /\ e_text[i + 1] = LPAR
    /\ \E i \in 1..(Len(e_text) - 1) : e_text[i] = RPAR /\ e_text[i + 1] = BSL
    /\ Len(e_result) > Len(e_text) + 2

----------------------------------------------------------------------------
(* Properties of save_pdf, under SaveSpec *)

\* _minimal_pdf_fallback was entered
EmitterRan ==
    pc \in {"layout", "wrapped", "sealed", "allocated", "pages", "assembled", "done"}

\* the converter ran and wrote its PDF
ConverterSucceeded == \E p \in DOMAIN files : files[p] = "converted"

\* C16 (fallback only): under save_pdf the emitter is entered only when no
\* converter was found or the converter wrote no PDF; when the converter
\* wrote its PDF the emitter is not entered and writes nothing.  The code
\* breaks it for a filepath whose last "." is in a directory name: the
\* converter writes into out_dir while expected_pdf is outside it.
C16_FallbackOnly ==
    Saving =>
        /\ EmitterRan => ~lo_path \/ ~ConverterSucceeded
        /\ ConverterSucceeded => ~EmitterRan /\ out_file = <<>>

----------------------------------------------------------------------------
(* More properties of wrap_text, under WrapSpec *)

\* C18 (never empty): wrap_text returns at least one line, and for a text
\* that is empty or all whitespace it returns the empty line alone.
C18_NeverEmpty ==
    w_pc = "returned" =>
        /\ Len(w_result) >= 1
        /\ (\A i \in 1..Len(w_text) : w_text[i] \in Whitespace) => w_result = << <<>> >>

\* C18 witness: a text of spaces and newlines, at a width that would hold
\* it, returned as the empty line alone.
C18_Witness ==
    /\ w_pc = "returned"
    /\ Len(w_text) >= 2
    /\ Len(w_text) <= w_width
    /\ SP \in {w_text[i] : i \in 1..Len(w_text)}
    /\ NL \in {w_text[i] : i \in 1..Len(w_text)}
    /\ \A i \in 1..Len(w_text) : w_text[i] \in Whitespace
    /\ w_result = << <<>> >>

----------------------------------------------------------------------------
(* More properties of the emitter, under Spec *)

\* the lines wrap_text returns for the records with text, in input order,
\* each as it is written in a page: escaped and in latin-1
WrappedLinesOf(ls) ==
    Flatten([i \in 1..Len(ls) |->
                IF ls[i][1] = <<>> THEN <<>>
                ELSE LET ws == wrap_text(ls[i][1], IF ls[i][2] THEN 75 ELSE 85)
                     IN  [j \in 1..Len(ws) |-> EncodeLatin1(escape_pdf(ws[j]))]])

\* the positions of the newlines of a page, the text-show lines that begin
\* after one of them, and the text of the text-show line at b[p]
Newlines(b) == {q \in 1..Len(b) : b[q] = NL}

DrawStartsAfter(b, nls) == {q + 1 : q \in {r \in nls : r < Len(b) /\ b[r + 1] = "/"}}

DrawTextUpTo(b, nls, p) ==
    LET open  == NextSpace(b, NextSpace(b, DrawYPos(b, p)) + 1) + 1
        after == {q \in nls : q > p}
        stop  == IF after = {} THEN Len(b) + 1 ELSE CHOOSE q \in after : \A r \in after : q <= r
    IN  SubSeq(b, open + 1, stop - 1 - Len(TjOp))

\* the texts of the text-show lines of a page, in the order of the page
TextsOfPage(b) ==
    LET nls    == Newlines(b)
        starts == DrawStartsAfter(b, nls)
        rank   == [p \in starts |-> Cardinality({q \in starts : q <= p})]
    IN  [n \in 1..Cardinality(starts) |->
            DrawTextUpTo(b, nls, CHOOSE p \in starts : rank[p] = n)]

\* C19 (order preservation across pages): once the last page is sealed, the
\* texts of the text-show lines, read page after page and line after line,
\* are the wrapped lines of the records with text, in input order: none is
\* missing, none is there twice, none is out of place.
C19_OrderPreserved ==
    pc = "sealed" =>
        Flatten([k \in 1..Len(content_streams) |-> TextsOfPage(content_streams[k])])
            = WrappedLinesOf(lines)

\* C19 witness: a last record of three wrapped lines, the first of them
\* last on page one and the other two, in order, alone on page two.
C19_Witness ==
    /\ pc = "sealed"
    /\ Len(content_streams) = 2
    /\ Len(lines) >= 2
    /\ LET ws    == wrap_text(lines[Len(lines)][1], 85)
           page1 == content_streams[1]
           page2 == content_streams[2]
       IN  /\ Len(ws) = 3
           /\ ws[1] # ws[2] /\ ws[2] # ws[3] /\ ws[1] # ws[3]
           /\ Cardinality(DrawStarts(page2)) = 2
           /\ DrawText(page1, Nth(DrawStarts(page1), Cardinality(DrawStarts(page1)))) = ws[1]
           /\ DrawText(page2, Nth(DrawStarts(page2), 1)) = ws[2]
           /\ DrawText(page2, Nth(DrawStarts(page2), 2)) = ws[3]

\* n empty records
Blanks(n) == [i \in 1..n |-> << <<>>, FALSE >>]

\* C20 (empty record): the step for an empty record lowers y by 12 and
\* seals the page in progress exactly when the lowered y is below 72.
\* Without a seal the page in progress and the sealed pages are as before.
\* With a seal the sealed page holds the operator lines of the page in
\* progress, the new page in progress has no text-show line and y is 720,
\* not 720 - 12.  So 54 empty records leave y = 72 on the first page, and
\* the 55th seals it.
C20_EmptyRecord ==
    [][ /\ (pc = "layout" /\ lines' # lines /\ lines'[Len(lines')][1] = <<>>) =>
              LET lowered == FSub(y, FromInt(12))
                  sealed  == Len(content_streams') = Len(content_streams) + 1
              IN  /\ pc' = "layout"
                  /\ sealed <=> FLess(lowered, FromInt(72))
                  /\ ~sealed =>
                        /\ y' = lowered
                        /\ current_stream_lines' = current_stream_lines
                        /\ content_streams' = content_streams
                  /\ sealed =>
                        /\ y' = FromInt(720)
                        /\ SubSeq(content_streams', 1, Len(content_streams)) = content_streams
                        /\ TextsOfPage(content_streams'[Len(content_streams')])
                              = [n \in 1..Cardinality(DrawLines(current_stream_lines)) |->
                                    EncodeLatin1(DrawText(
                                        current_stream_lines[Nth(DrawLines(current_stream_lines), n)],
                                        1))]
                        /\ DrawLines(current_stream_lines') = {}
        /\ (pc' = "layout" /\ lines' = Blanks(54)) =>
              y' = FromInt(72) /\ content_streams' = <<>>
        /\ (pc' = "layout" /\ lines' = Blanks(55)) =>
              y' = FromInt(720) /\ Len(content_streams') = 1
      ]_vars

\* C20 witness: an empty record that sealed a page showing 42 lines, the
\* cursor back at 720.
C20_Witness ==
    /\ pc = "layout"
    /\ Len(lines) = 43
    /\ lines[43][1] = <<>>
    /\ lines[42][1] # <<>>
    /\ Len(content_streams) = 1
    /\ Cardinality(DrawStarts(content_streams[1])) = 42
    /\ y = FromInt(720)
    /\ DrawLines(current_stream_lines) = {}

----------------------------------------------------------------------------
(* Fonts, positions and the cursor, under Spec *)

\* the exact difference a - b of two cursor values
Diff(a, b) == Norm(a[1] - b[1] - 1, a[2] - b[2] + Two30)

\* d is the decimal tenths / 10 to within 64 units of 2^-49, one unit in
\* the last place of a cursor value between 512 and 1024; tenths / 10 is
\* taken a little low, by less than 9 units
NearTenths(d, tenths) ==
    LET whole == <<(tenths * Two19) \div 10, ((tenths * Two19) % 10) * (Two30 \div 10)>>
    IN  /\ FLess(Norm(whole[1] - 1, whole[2] + Two30 - 64), d)
        /\ FLess(d, Norm(whole[1], whole[2] + 64))

\* C21 (font selection): the record read last decides the font of every
\* line drawn for it.  A heading record is wrapped at 75 columns and each
\* of its lines is drawn as "/F2 16 Tf ..."; any other record with text is
\* wrapped at 85 columns and each of its lines is drawn as "/F1 11 Tf ...".
\* The step that draws a line lowers y, from 720 when the step sealed a
\* page, by the float font_size * 1.4: by 22.4 for a heading line and by
\* 15.4 for a body line, to within the rounding of the last place of y.
C21_FontSelection ==
    [][ /\ (pc = "layout" /\ pc' = "wrapped") =>
              LET rec == lines'[Len(lines')]
              IN  /\ is_heading' = rec[2]
                  /\ wrapped' = wrap_text(rec[1], IF rec[2] THEN 75 ELSE 85)
        /\ pc = "wrapped" =>
              LET rec     == lines[Len(lines)]
                  emitted == current_stream_lines'[Len(current_stream_lines')]
                  sealed  == Len(content_streams') = Len(content_streams) + 1
                  y0      == IF sealed THEN FromInt(720) ELSE y
              IN  /\ lines' = lines
                  /\ Len(emitted) > 0 /\ emitted[1] = "/"
                  /\ DrawFontRef(emitted, 1) = IF rec[2] THEN <<"/", "F", "2">> ELSE <<"/", "F", "1">>
                  /\ DrawSize(emitted, 1) = IF rec[2] THEN 16 ELSE 11
                  /\ DrawText(emitted, 1) = escape_pdf(Head(wrapped))
                  /\ y' = FSub(y0, FontTimesOnePointFour(IF rec[2] THEN 16 ELSE 11))
                  /\ NearTenths(Diff(y0, y'), IF rec[2] THEN 224 ELSE 154)
      ]_vars

\* C21 witness: a body line and the two lines of a heading drawn one after
\* the other on one page, the cursor 15.4 + 22.4 + 22.4 below the top.
C21_Witness ==
    /\ pc = "layout"
    /\ Len(lines) = 2
    /\ lines[1][1] # <<>> /\ ~lines[1][2]
    /\ lines[2][2] /\ Len(wrap_text(lines[2][1], 75)) = 2
    /\ content_streams = <<>>
    /\ Cardinality(DrawLines(current_stream_lines)) = 3
    /\ NearTenths(Diff(FromInt(720), y), 602)

\* C22 (horizontal position): the x of a drawn line is 72 when the record
\* is not a heading; for a heading line of n characters, of approximate
\* width n * 16 * 0.5, it is (612 - width) / 2 when the width is at most
\* 468 and 72 when it is more.  So no line is drawn left of x = 72.
C22_HorizontalPosition ==
    [][ pc = "wrapped" =>
            LET rec     == lines[Len(lines)]
                emitted == current_stream_lines'[Len(current_stream_lines')]
                x       == DrawX(emitted, 1)
                width   == (Len(Head(wrapped)) * 16) \div 2
            IN  /\ x >= 72
                /\ ~rec[2] => x = 72
                /\ (rec[2] /\ width <= 468) => 2 * x = 612 - width
                /\ (rec[2] /\ width > 468) => x = 72
      ]_vars

\* C22 witness: a body line at x = 72, then a heading line of 60
\* characters, too wide to centre, at x = 72 and one of 20 characters
\* centred at x = 226.
C22_Witness ==
    /\ pc = "layout"
    /\ Len(lines) = 2
    /\ ~lines[1][2]
    /\ lines[2][2]
    /\ LET drawn == DrawLines(current_stream_lines)
       IN  /\ Cardinality(drawn) = 3
           /\ DrawX(current_stream_lines[Nth(drawn, 1)], 1) = 72
           /\ DrawX(current_stream_lines[Nth(drawn, 2)], 1) = 72
           /\ Len(DrawText(current_stream_lines[Nth(drawn, 2)], 1)) = 60
           /\ DrawX(current_stream_lines[Nth(drawn, 3)], 1) = 226
           /\ Len(DrawText(current_stream_lines[Nth(drawn, 3)], 1)) = 20

----------------------------------------------------------------------------
(* Greedy wrapping, under WrapSpec *)

\* C23 (greedy wrapping): a line of the returned wrapping ends only where
\* the next word would not fit: for every two consecutive lines, the
\* length of the earlier one plus 1 plus the length of the first word of
\* the later one is more than chars_per_line.  Every line is its words
\* with one space between them.
C23_GreedyWrapping ==
    w_pc = "returned" =>
        /\ \A i \in 1..(Len(w_result) - 1) :
              Len(w_result[i]) + 1 + Len(Head(Split(w_result[i + 1]))) > w_width
        /\ \A i \in 1..Len(w_result) :
              w_result[i] = JoinWith(<<SP>>, Split(w_result[i]))

\* C23 witness: a returned wrapping whose first line took a second word
\* that fitted exactly, and whose next word went to a second line.
C23_Witness ==
    /\ w_pc = "returned"
    /\ Len(w_result) = 2
    /\ Len(Split(w_result[1])) = 2
    /\ Len(w_result[1]) = w_width

----------------------------------------------------------------------------
(* Termination, under FairSpec *)

\* C24 (totality and termination): every call ends with the whole file
\* written: a header, the objects, a cross-reference section and the end
\* marker.  No step seals more than one page.  A step that seals a page
\* for a line draws that line on the fresh page in the same step, where it
\* fits: the cursor it leaves, 720 - line_height, is not below 72.  A step
\* that seals a page for an empty record leaves the cursor at 720, from
\* where the next empty record does not seal.
C24_Termination ==
    /\ <>(/\ pc = "done"
          /\ out_file = Flatten(pdf_parts)
          /\ StartsWith(out_file, PdfHeader)
          /\ HasStartXref(out_file)
          /\ XrefCount(out_file) = obj_id + 1)
    /\ [][ /\ Len(content_streams') <= Len(content_streams) + 1
           /\ (pc = "wrapped" /\ Len(content_streams') = Len(content_streams) + 1) =>
                 /\ wrapped' = Tail(wrapped)
                 /\ DrawLines(current_stream_lines') = {Len(current_stream_lines')}
                 /\ DrawText(current_stream_lines'[Len(current_stream_lines')], 1)
                       = escape_pdf(Head(wrapped))
                 /\ ~FLess(y', FromInt(72))
                 /\ y' = FSub(FromInt(720), FontTimesOnePointFour(IF is_heading THEN 16 ELSE 11))
           /\ (pc = "layout" /\ pc' = "layout"
                 /\ Len(content_streams') = Len(content_streams) + 1) =>
                 /\ y' = FromInt(720)
                 /\ ~FLess(FSub(y', FromInt(12)), FromInt(72))
         ]_vars

\* C24 witness: the file of a document of three pages written, the call
\* over.
C24_Witness ==
    /\ pc = "done"
    /\ Len(content_streams) = 3
    /\ Len(lines) > 0
    /\ out_file = Flatten(pdf_parts)
    /\ HasStartXref(out_file)

----------------------------------------------------------------------------
(* Sealed pages and the cursor, under Spec *)

\* the operator line of the bytes b that begins at b[s] is exactly op
LineIs(b, s, op) ==
    /\ s + Len(op) - 1 <= Len(b)
    /\ SubSeq(b, s, s + Len(op) - 1) = op
    /\ s + Len(op) <= Len(b) => b[s + Len(op)] = NL

\* C25 (content-stream structure): the page a step seals, whether the step
\* is for an empty record, for a wrapped line or the final seal, is these
\* operator lines: first the background fill, second "BT", last "ET", each
\* of the three once, and between "BT" and "ET" only text-colour lines and
\* text-show lines "/... Tj", every text-show line after a text-colour
\* line.
C25_StreamStructure ==
    [][ Len(content_streams') = Len(content_streams) + 1 =>
            LET b       == content_streams'[Len(content_streams')]
                nls     == Newlines(b)
                starts  == {1} \cup {q + 1 : q \in nls}
                ends    == nls \cup {Len(b) + 1}
                fills   == {s \in starts : LineIs(b, s, BgLine)}
                begins  == {s \in starts : LineIs(b, s, <<"B", "T">>)}
                finals  == {s \in starts : LineIs(b, s, <<"E", "T">>)}
                colours == {s \in starts : LineIs(b, s, ColorLine)}
                shows   == {s \in starts : s <= Len(b) /\ b[s] = "/"}
                shown   == {q \in ends : q > Len(TjOp) /\ SubSeq(b, q - Len(TjOp), q - 1) = TjOp}
            IN  /\ fills = {1}
                /\ begins = {Len(BgLine) + 2}
                /\ finals = {Len(b) - 1}
                /\ shows \cup colours = starts \ (fills \cup begins \cup finals)
                /\ Cardinality(shown) = Cardinality(shows)
                /\ \A s \in shows : \E c \in colours : c < s
      ]_vars

\* C25 witness: 43 records with text sealed on two pages, the first by the
\* break before the 43rd line and the second, which is the fill, "BT", the
\* text colour, that line and "ET", by the final seal.
C25_Witness ==
    /\ pc = "sealed"
    /\ Len(lines) = 43
    /\ \A i \in 1..43 : lines[i][1] # <<>>
    /\ Len(content_streams) = 2
    /\ LET b  == content_streams[2]
           s3 == Len(BgLine) + Len(BT) + 3
           s4 == s3 + Len(ColorLine) + 1
       IN  /\ Cardinality(Newlines(b)) = 4
           /\ LineIs(b, 1, BgLine)
           /\ LineIs(b, Len(BgLine) + 2, BT)
           /\ LineIs(b, s3, ColorLine)
           /\ b[s4] = "/"
           /\ LineIs(b, Len(b) - 1, ET)

\* C26 (cursor invariant): before and after every step, y is at least 72
\* and at most 720.  A step that seals a page for an empty record, and the
\* final seal, leave y = 720; a step that seals a page for a wrapped line
\* draws the line at 720 and leaves y one line height below 720.
C26_CursorInvariant ==
    [][ /\ ~FLess(y, FromInt(72)) /\ ~FLess(FromInt(720), y)
        /\ ~FLess(y', FromInt(72)) /\ ~FLess(FromInt(720), y')
        /\ (Len(content_streams') = Len(content_streams) + 1 /\ pc = "layout") =>
              y' = FromInt(720)
        /\ (Len(content_streams') = Len(content_streams) + 1 /\ pc = "wrapped") =>
              /\ DrawY(current_stream_lines'[Len(current_stream_lines')], 1) = 720
              /\ \/ NearTenths(Diff(FromInt(720), y'), 154)
                 \/ NearTenths(Diff(FromInt(720), y'), 224)
      ]_vars

\* C26 witness: 55 empty records, the 54th leaving the cursor at 72 and the
\* 55th sealing the page, the cursor back at 720.
C26_Witness ==
    /\ pc = "layout"
    /\ lines = Blanks(55)
    /\ Len(content_streams) = 1
    /\ y = FromInt(720)

----------------------------------------------------------------------------
(* The assembled file, under Spec *)

\* the byte strings of the k-th object written: marker, data, "endobj"
PartsOfObject(k) == SubSeq(pdf_parts, 3 * k - 1, 3 * k + 1)

\* C27 (offset table): while the objects are written, offsets holds exactly
\* the identities written so far, 1..4 + 2 * page_idx, and once all are
\* written exactly 1..obj_id.  Each identity has its marker "<id> 0 obj"
\* once among the parts.  offsets[1] is 9, the length of the header; each
\* next offset is the one before plus the lengths of the marker, the data
\* and the "endobj" of the object before, so the offsets grow strictly and
\* none is 0; no in-use entry of the cross-reference section written holds
\* offset 0.
C27_OffsetTable ==
    pc \in {"pages", "assembled", "done"} =>
        LET last == IF pc = "pages" THEN 4 + 2 * page_idx ELSE obj_id
        IN  /\ DOMAIN offsets = 1..last
            /\ \A i \in 1..last :
                  /\ Cardinality({k \in 1..Len(pdf_parts) :
                                    pdf_parts[k] = Digits(i) \o <<" ", "0", " ", "o", "b", "j", NL>>}) = 1
                  /\ PartsOfObject(i)[1] = Digits(i) \o <<" ", "0", " ", "o", "b", "j", NL>>
                  /\ offsets[i] # 0
            /\ offsets[1] = 9
            /\ offsets[1] = Len(pdf_parts[1])
            /\ \A i \in 1..(last - 1) :
                  /\ offsets[i + 1] = offsets[i] + SumLen(PartsOfObject(i))
                  /\ offsets[i + 1] > offsets[i]
            /\ pc = "done" =>
                  \A i \in 1..obj_id : XrefEntryOffset(out_file, i) = offsets[i]
                                          /\ XrefEntryOffset(out_file, i) > 0

\* C27 witness: the file of three pages written, with ten offsets.
C27_Witness ==
    /\ pc = "done"
    /\ obj_id = 10
    /\ DOMAIN offsets = 1..10
    /\ offsets[1] = 9
    /\ offsets[10] > offsets[9]
    /\ XrefEntryOffset(out_file, 10) = offsets[10]

\* C28 (stream length): in the assembled output the k-th sealed page is
\* written as object 3 + 2k: "<< /Length N >>", "stream", N bytes and
\* "endstream", where the N bytes are the whole of the sealed page k, and
\* nothing else stands between the two keywords.  The page object written
\* next, 4 + 2k, names that stream as its /Contents.
C28_StreamLength ==
    pc \in {"assembled", "done"} =>
        \A k \in 1..Len(content_streams) :
            LET stream_id == 3 + 2 * k
                payload   == pdf_parts[3 * stream_id]
                declared  == NatAt(payload, Len(LengthStart) + 1)
                head      == LengthStart \o Digits(declared) \o StreamOp
                page      == pdf_parts[3 * (stream_id + 1)]
            IN  /\ pdf_parts[3 * stream_id - 1]
                      = Digits(stream_id) \o <<" ", "0", " ", "o", "b", "j", NL>>
                /\ StartsWith(payload, head)
                /\ EndsWith(payload, EndStream)
                /\ Len(payload) - Len(head) - Len(EndStream) = declared
                /\ SubSeq(payload, Len(head) + 1, Len(head) + declared) = content_streams[k]
                /\ declared = Len(content_streams[k])
                /\ StartsWith(page, PageStart)
                /\ RefSeq(page)[2] = stream_id

\* C28 witness: two sealed pages of different lengths assembled, each
\* stream declaring its own length.
C28_Witness ==
    /\ pc = "assembled"
    /\ Len(content_streams) = 2
    /\ Len(content_streams[1]) > Len(content_streams[2])
    /\ Len(content_streams[2]) > Len(BgLine) + Len(BT) + Len(ET) + 2
    /\ NatAt(pdf_parts[15], Len(LengthStart) + 1) = Len(content_streams[1])
    /\ NatAt(pdf_parts[21], Len(LengthStart) + 1) = Len(content_streams[2])

\* the identity the trailer names as /Root: the number before " 0 R >>\n",
\* on the line before the startxref keyword
TrailerRoot(b) ==
    LET number == DigitRunStart(b, Len(b) - Len(Eof) - 1)
        last   == number - Len(StartXref) - Len(TrailerEnd) - 1
    IN  ParseNat(SubSeq(b, DigitRunStart(b, last), last))

\* the trailer line reads "<< /Size <count> /Root <root> 0 R >>\n" and
\* follows the trailer keyword
HasTrailer(b) ==
    LET number == DigitRunStart(b, Len(b) - Len(Eof) - 1)
        line   == SizeStart \o Digits(XrefCount(b)) \o RootKey
                    \o Digits(TrailerRoot(b)) \o TrailerEnd
        first  == number - Len(StartXref) - Len(line)
    IN  /\ SubSeq(b, first, first + Len(line) - 1) = line
        /\ SubSeq(b, first - Len(TrailerOp), first - 1) = TrailerOp

\* C29 (start-of-xref and trailer): in the written file the number after
\* the startxref keyword is the number of bytes before the "xref" keyword,
\* which is the length of the header and of all the serialized objects, and
\* the keyword stands there; the trailer's /Root names identity 1, and the
\* object serialized under identity 1, right after the header, is the catalog.
C29_StartXref ==
    pc = "done" =>
        /\ HasStartXref(out_file)
        /\ StartXrefValue(out_file) = SumRange(pdf_parts, 1, 3 * obj_id + 1)
        /\ SubSeq(out_file, StartXrefValue(out_file) + 1,
                  StartXrefValue(out_file) + Len(XrefOp)) = XrefOp
        /\ pdf_parts[3 * obj_id + 2] = XrefOp
        /\ SubSeq(out_file, StartXrefValue(out_file) - Len(EndObj) + 1,
                  StartXrefValue(out_file)) = EndObj
        /\ HasTrailer(out_file)
        /\ TrailerRoot(out_file) = catalog_id
        /\ StartsWith(SubSeq(out_file, Len(PdfHeader) + 1, Len(out_file)),
                      ObjMarker(TrailerRoot(out_file)) \o CatalogStart)

\* C29 witness: a written file of two pages whose startxref number is the
\* length of its eight objects and its header, with root 1.
C29_Witness ==
    /\ pc = "done"
    /\ obj_id = 8
    /\ StartXrefValue(out_file) = Len(Flatten(SubSeq(pdf_parts, 1, 25)))
    /\ StartXrefValue(out_file) > offsets[8]
    /\ TrailerRoot(out_file) = 1

----------------------------------------------------------------------------
(* Fresh output, under SaveSpec *)

\* C30 (fresh output): when save_pdf returns from the converter branch the
\* file at filepath is the converter's PDF of this call, never a file that
\* was there before the call; and a call that found a converter does not end
\* by raising: a converter that fails or times out leads to the fallback.
C30_FreshOutput ==
    /\ pc = "returned" => /\ filepath \in DOMAIN files
                          /\ files[filepath] = "converted"
    /\ pc # "raised"

====
